---- MODULE Spec2Model ----
(***************************************************************************)
(* Model of the GCIF monochrome writer (src/encoder/MonoWriter.cpp):       *)
(* MonoWriter::process() with its per-tile-size pipeline, simulate(), and  *)
(* the write pass writeTables / writeRowHeader / write.                    *)
(*                                                                         *)
(* A MonoWriter object is a record (see FreshWriter); the nested           *)
(* _filter_encoder is the same kind of record held in a sequence of        *)
(* length 0 (null pointer) or 1.  Arrays are functions over 0..n-1.        *)
(* Memory the code reads without having written it (heap buffers after     *)
(* resize, reads past the end of the tile map, unset filter slots) holds   *)
(* the byte in the variable garbage, chosen arbitrarily per run.           *)
(***************************************************************************)
EXTENDS Integers, Sequences, FiniteSets, Bags, TLC

(***************************************************************************)
(* Bounds of the model (inputs explored).                                  *)
(***************************************************************************)
MaxBitsTop == 3          \* largest max_bits given to the outer process()
MaxDepth == 3            \* nesting levels followed in the recursion chain
MaxGarbage == 1          \* garbage bytes are 0..MaxGarbage and MASK_TILE

(***************************************************************************)
(* Program constants.  MonoWriter.hpp and Filters.hpp are not among the    *)
(* sources; the catalog and the limits are scaled-down stand-ins that      *)
(* keep the ordering SF_FIXED <= SF_COUNT  , MAX_PALETTE <= MAX_FILTERS.     *)
(***************************************************************************)
MASK_TILE == 255
TODO_TILE == 0
UNUSED_SYMPAL == 255
MAX_ROW_PASSES == 2
SFCOUNT == 4               \* SF_COUNT (an identifier cannot begin with SF_)
SFFIXED == 2               \* SF_FIXED
MAX_FILTERS == 4
MAX_PALETTE == 2
MAX_CHAOS_LEVELS == 3
RECURSE_THRESH_COUNT == 2
RF_PREV == 1
INT_MAX == 2147483647

\* Parameters fields that the model keeps fixed (knobs of the caller).
AWARDS == <<5, 3>>
award_count == 2
max_filters == 3
sympal_thresh_num == 0
sympal_thresh_den == 2
filter_thresh_num == 3
filter_thresh_den == 2

(***************************************************************************)
(* Arithmetic helpers.                                                     *)
(***************************************************************************)
Min(a, b) == IF a < b THEN a ELSE b

CeilDiv(a, b) == (a + b - 1) \div b

RECURSIVE BSR32(_)
\* Index of the highest set bit (BitMath.hpp), for v >= 1.
BSR32(v) == IF v <= 1 THEN 0 ELSE 1 + BSR32(v \div 2)

\* Smallest k with 2^k >= q.
ILog2Ceil(q) == IF q <= 1 THEN 0 ELSE 1 + BSR32(q - 1)

RECURSIVE SumTo(_, _)
\* f[0] + ... + f[n-1] for a function f over 0..n-1.
SumTo(f, n) == IF n = 0 THEN 0 ELSE f[n - 1] + SumTo(f, n - 1)

RECURSIVE SumBag(_, _)
\* Sum of f[s] over the elements s of the set S.
SumBag(f, S) == IF S = {} THEN 0
                ELSE LET s == CHOOSE e \in S : TRUE
                     IN f[s] + SumBag(f, S \ {s})

\* The bag of the values val[c], c in the set cells.
BagOfCells(cells, val) ==
  [s \in {val[c] : c \in cells} |-> Cardinality({c \in cells : val[c] = s})]

\* The bag of the entries seq[i], i in the index set I.
BagOfIdx(seq, I) ==
  [s \in {seq[i] : i \in I} |-> Cardinality({i \in I : seq[i] = s})]

(***************************************************************************)
(* Uninitialised memory: the byte found at offset i of a buffer that the   *)
(* run has not written, for the pattern seed g.                            *)
(***************************************************************************)
Uninit(g, i) == (g * ((i + 1) \div 2)) % (g + 1)

(***************************************************************************)
(* EntropyEstimator (EntropyEstimator.hpp is not among the sources).       *)
(* The histogram is a bag.  entropy(block) is an integer bit estimate of   *)
(* the block under the histogram with the block counted in; the histogram  *)
(* itself is left unchanged.                                               *)
(***************************************************************************)
EEInit == EmptyBag

EEAdd(hist, block) == hist (+) block

EESubtract(hist, block) == hist (-) block

EEEntropy(hist, block) ==
  LET total == BagCardinality(hist) + BagCardinality(block)
      cost == [s \in BagToSet(block) |->
                 block[s] * ILog2Ceil(CeilDiv(total, CopiesIn(s, hist) + block[s]))]
  IN SumBag(cost, BagToSet(block))

EEEntropyOverall(hist) == EEEntropy(EmptyBag, hist)

(***************************************************************************)
(* FilterScorer (FilterScorer.hpp is not among the sources): getTop(k)     *)
(* lists the k highest scores, equal scores by ascending index.            *)
(***************************************************************************)
ScoreBefore(sc, a, b) == sc[a] > sc[b] \/ (sc[a] = sc[b] /\ a < b)

GetTop(sc, k) ==
  [i \in 0..(k - 1) |->
     CHOOSE a \in DOMAIN sc :
       Cardinality({b \in DOMAIN sc : ScoreBefore(sc, b, a)}) = i]

(***************************************************************************)
(* MonoChaos (not among the sources): a score per column and the score of  *)
(* the cell to the left.                                                   *)
(***************************************************************************)
ResidualScore(r, num_syms) == Min(r, num_syms - r)

ChaosTable(bins, sum) == Min(bins - 1, ILog2Ceil(sum + 1))

\* x is the position in the row; a position past the row reads as 0 and a
\* store there leaves the columns alone.
ChaosInit(bins, size_x) ==
  [bins |-> bins, col |-> [i \in 0..(size_x - 1) |-> 0], x |-> 0, prev |-> 0]

ChaosStart(c) == [c EXCEPT !.col = [i \in DOMAIN c.col |-> 0], !.x = 0, !.prev = 0]

ChaosStartRow(c) == [c EXCEPT !.x = 0, !.prev = 0]

ChaosGet(c) ==
  ChaosTable(c.bins, c.prev + (IF c.x \in DOMAIN c.col THEN c.col[c.x] ELSE 0))

ChaosStoreScore(c, sc) ==
  [c EXCEPT !.col = [i \in DOMAIN c.col |-> IF i = c.x THEN sc ELSE c.col[i]],
            !.prev = sc, !.x = c.x + 1]

ChaosStore(c, r, num_syms) == ChaosStoreScore(c, ResidualScore(r, num_syms))

ChaosZero(c) == ChaosStoreScore(c, 0)

(***************************************************************************)
(* EntropyEncoder (not among the sources): add() counts symbols,           *)
(* finalize() fixes a code length per counted symbol, simulate(sym) and    *)
(* write(sym) cost that length, the table costs 5 bits per alphabet entry. *)
(***************************************************************************)
EncFresh == [hist |-> EmptyBag, len |-> EmptyBag]

EncAdd(e, block) == [e EXCEPT !.hist = e.hist (+) block]

EncFinalize(e) ==
  LET n == BagCardinality(e.hist)
      used == BagToSet(e.hist)
  IN [e EXCEPT !.len =
        [s \in {u \in used : ILog2Ceil(CeilDiv(n, e.hist[u])) > 0} |->
           ILog2Ceil(CeilDiv(n, e.hist[s]))]]

EncSimulate(e, sym) == CopiesIn(sym, e.len)

EncTableBits(alphabet) == 5 * alphabet

(***************************************************************************)
(* The predictor catalog MONO_FILTERS (Filters.hpp is not among the        *)
(* sources): zero, left, up, up-left, each in its safe form that reads 0   *)
(* for a neighbour outside the matrix.                                     *)
(***************************************************************************)
At(P, x, y) == IF x < 0 \/ y < 0 \/ x >= P.size_x \/ y >= P.size_y THEN 0
               ELSE P.data[x + y * P.size_x]

Predict(f, P, x, y) ==
  CASE f = 0 -> 0
    [] f = 1 -> At(P, x - 1, y)
    [] f = 2 -> At(P, x, y - 1)
    [] OTHER -> At(P, x - 1, y - 1)

(***************************************************************************)
(* The MonoWriter object.  P is _params: data and mask are functions over  *)
(* the cell offsets x + y * size_x.  g is the pattern of the memory the    *)
(* object and its buffers are allocated from.                              *)
(***************************************************************************)
FreshWriter(P, g) ==
  [P |-> P, g |-> g,
   tile_bits |-> 0, tiles_x |-> 0, tiles_y |-> 0, tiles_count |-> 0,
   tiles |-> <<>>,
   sympal |-> [i \in 0..(MAX_PALETTE - 1) |-> Uninit(g, i)],
   sympal_filter_map |-> [i \in 0..(MAX_PALETTE - 1) |-> Uninit(g, i)],
   sympal_filter_count |-> 0, normal_filter_count |-> 0, filter_count |-> 0,
   filters |-> [i \in 0..(MAX_FILTERS - 1) |-> Uninit(g, i) % SFCOUNT],
   filter_indices |-> [i \in 0..(MAX_FILTERS - 1) |-> Uninit(g, i)],
   residuals |-> <<>>,
   tile_row_filters |-> <<>>,
   row_filter_entropy |-> 0,
   fe |-> <<>>,
   chaos |-> ChaosInit(1, P.size_x),
   encoder |-> [b \in 0..(MAX_CHAOS_LEVELS - 1) |-> EncFresh],
   row_filter_encoder |-> EncFresh,
   tile_bits_field_bc |-> 0,
   best_entropy |-> INT_MAX, best_bits |-> 0,
   tile_seen |-> <<>>, write_filter |-> Uninit(g, 0), prev_filter |-> 0]

Cells(P) == 0..(P.size_x * P.size_y - 1)
CellX(P, i) == i % P.size_x
CellY(P, i) == i \div P.size_x

TileSize(w) == 2 ^ w.tile_bits
Tiles(w) == 0..(w.tiles_count - 1)
TileOf(w, i) == (CellX(w.P, i) \div TileSize(w)) + (CellY(w.P, i) \div TileSize(w)) * w.tiles_x

\* The in-bounds cells of tile t, and those of them that are not masked.
TileCells(w, t) == {i \in Cells(w.P) : TileOf(w, i) = t}
TileUnmasked(w, t) == {i \in TileCells(w, t) : ~w.P.mask[i]}

\* getTile(x, y) of MonoWriter.hpp.
GetTile(w, i) == w.tiles[TileOf(w, i)]

\* The sum without the reduction.
ResidualOfUnreduced(value, prediction, num_syms) ==
  value + num_syms - prediction

\* value + num_syms - prediction, reduced once.
ResidualOf(value, prediction, num_syms) ==
  LET r == value + num_syms - prediction
  IN IF r >= num_syms THEN r - num_syms ELSE r

\* The residual of cell i under catalog predictor f.
CellResidual(P, f, i) ==
  ResidualOf(P.data[i], Predict(f, P, CellX(P, i), CellY(P, i)), P.num_syms)

(***************************************************************************)
(* process(), lines 1000-1016: geometry and buffers for one tile size.     *)
(* resize() keeps what fits of the old buffer and leaves the rest unset.   *)
(***************************************************************************)
Resized(old, n, g) ==
  [i \in 0..(n - 1) |-> IF i \in DOMAIN old THEN old[i] ELSE Uninit(g, i)]

InitBits(w, bits) ==
  LET ts == 2 ^ bits
      tx == (w.P.size_x + ts - 1) \div ts
      ty == (w.P.size_y + ts - 1) \div ts
  IN [w EXCEPT !.tile_bits = bits, !.tiles_x = tx, !.tiles_y = ty,
               !.tiles_count = tx * ty,
               !.tiles = Resized(w.tiles, tx * ty, w.g),
               !.tile_row_filters = Resized(w.tile_row_filters, ty, w.g),
               !.residuals = Resized(w.residuals, w.P.size_x * w.P.size_y, w.g)]

(***************************************************************************)
(* maskTiles                                                               *)
(***************************************************************************)
\* Only the first cell of the tile is looked at.
MaskTilesFirstCell(w) ==
  [w EXCEPT !.tiles = [t \in Tiles(w) |->
      IF \E i \in TileCells(w, t) : w.P.mask[i] /\ \A j \in TileCells(w, t) : i <= j
      THEN MASK_TILE ELSE TODO_TILE]]

MaskTiles(w) ==
  [w EXCEPT !.tiles = [t \in Tiles(w) |->
      IF TileUnmasked(w, t) = {} THEN MASK_TILE ELSE TODO_TILE]]

(***************************************************************************)
(* designPaletteFilters                                                    *)
(***************************************************************************)
\* uniform and uniform_value of a tile with an unmasked cell.
TileUniform(w, t) == \A i, j \in TileUnmasked(w, t) : w.P.data[i] = w.P.data[j]
TileUniformValue(w, t) ==
  LET first == CHOOSE i \in TileUnmasked(w, t) : \A j \in TileUnmasked(w, t) : i <= j
  IN w.P.data[first]

\* The k-th smallest element (k from 0) of a set of numbers.
KthOf(S, k) == CHOOSE a \in S : Cardinality({b \in S : b < a}) = k

DesignPaletteFilters(w) ==
  LET hist == [v \in 0..(w.P.num_syms - 1) |->
                 Cardinality({t \in Tiles(w) : /\ w.tiles[t] # MASK_TILE
                                               /\ TileUniform(w, t)
                                               /\ TileUniformValue(w, t) = v})]
      thresh == (sympal_thresh_num * w.tiles_count) \div sympal_thresh_den
      worth == {v \in DOMAIN hist : hist[v] > thresh}
      sympal_count == Min(Cardinality(worth), MAX_PALETTE)
  IN [w EXCEPT
        !.sympal = [i \in DOMAIN w.sympal |->
                      IF i < sympal_count THEN KthOf(worth, i) ELSE w.sympal[i]],
        !.sympal_filter_map = [i \in DOMAIN w.sympal_filter_map |->
                      IF i < sympal_count THEN UNUSED_SYMPAL ELSE w.sympal_filter_map[i]],
        !.sympal_filter_count = sympal_count]

(***************************************************************************)
(* designFilters                                                           *)
(***************************************************************************)
\* scores after the sweep of tile t: the summed ResidualScore per catalog
\* predictor; the sympal entries stay at 0.
TileScores(w, t) ==
  [f \in 0..(SFCOUNT + w.sympal_filter_count - 1) |->
     IF f < SFCOUNT
     THEN LET sc == [i \in TileUnmasked(w, t) |->
                       ResidualScore(CellResidual(w.P, f, i), w.P.num_syms)]
          IN SumBag(sc, TileUnmasked(w, t))
     ELSE 0]

\* The sympal entries whose value is the uniform value of tile t.
TileSympalMatch(w, t) ==
  IF TileUniform(w, t)
  THEN {f \in 0..(w.sympal_filter_count - 1) : w.sympal[f] = TileUniformValue(w, t)}
  ELSE {}

\* What tile t adds to awards[index].
TileAward(w, t, index) ==
  LET match == TileSympalMatch(w, t)
      offset == IF match = {} THEN 0 ELSE 1
      top == GetTop(TileScores(w, t), award_count)
      given == [ii \in offset..(award_count - 1) |->
                  IF top[ii - offset] = index THEN AWARDS[ii + 1] ELSE 0]
  IN (IF match # {} /\ index = SFCOUNT + KthOf(match, 0) THEN AWARDS[1] ELSE 0)
     + SumBag(given, offset..(award_count - 1))

Awards(w) ==
  LET live == {t \in Tiles(w) : w.tiles[t] # MASK_TILE}
  IN [index \in 0..(SFCOUNT + w.sympal_filter_count - 1) |->
        SumBag([t \in live |-> TileAward(w, t, index)], live)]

\* The selection loop started with no fixed filter counted.
SelectStartEmpty(w) ==
  [coverage |-> 0, sympal_f |-> 0, normal_f |-> 0, filters_set |-> SFFIXED,
   sympal_filter_map |-> w.sympal_filter_map,
   palette |-> [i \in 0..(MAX_PALETTE - 1) |-> Uninit(w.g, i)],
   filters |-> w.filters,
   filter_indices |-> w.filter_indices]

\* The state of the selection loop before any sorted score is looked at.
SelectStart(w) ==
  [coverage |-> 0, sympal_f |-> 0, normal_f |-> SFFIXED, filters_set |-> SFFIXED,
   sympal_filter_map |-> w.sympal_filter_map,
   palette |-> [i \in 0..(MAX_PALETTE - 1) |-> Uninit(w.g, i)],
   filters |-> [f \in DOMAIN w.filters |-> IF f < SFFIXED THEN f ELSE w.filters[f]],
   filter_indices |-> [f \in DOMAIN w.filter_indices |->
                         IF f < SFFIXED THEN f ELSE w.filter_indices[f]]]

\* One sorted score: the coverage and the filter it adds.
SelectOne(st, index, score) ==
  LET st1 == [st EXCEPT !.coverage = st.coverage + score \div AWARDS[1]]
  IN IF index < SFFIXED THEN st1
     ELSE IF index >= SFCOUNT
     THEN [st1 EXCEPT !.sympal_filter_map[index - SFCOUNT] = st.sympal_f,
                      !.palette[st.sympal_f] = index,
                      !.sympal_f = st.sympal_f + 1,
                      !.filters_set = st.filters_set + 1]
     ELSE [st1 EXCEPT !.filters[st.normal_f] = index,
                      !.filter_indices[st.normal_f] = index,
                      !.normal_f = st.normal_f + 1,
                      !.filters_set = st.filters_set + 1]

\* The filter table is full: the loop is left.
SelectFull(st, index) == index >= SFFIXED /\ st.filters_set >= MAX_FILTERS

RECURSIVE SelectFilters(_, _, _, _, _, _)
\* The loop over the sorted award scores, from position ii.
SelectFilters(st, awards, top, ii, count, coverage_thresh) ==
  IF ii >= count THEN st
  ELSE LET st1 == SelectOne(st, top[ii], awards[top[ii]])
       IN IF SelectFull(st1, top[ii]) THEN st1
          ELSE IF st1.coverage >= coverage_thresh THEN st1
          ELSE SelectFilters(st1, awards, top, ii + 1, count, coverage_thresh)

DesignFilters(w) ==
  LET awards == Awards(w)
      count == Min(w.P.max_filters + SFFIXED, SFCOUNT)
      coverage_thresh == (filter_thresh_num * w.tiles_count) \div filter_thresh_den
      st == SelectFilters(SelectStart(w), awards, GetTop(awards, count), 0, count,
                          coverage_thresh)
  IN [w EXCEPT
        !.tiles = [t \in Tiles(w) |->
                     IF w.tiles[t] # MASK_TILE /\ TileSympalMatch(w, t) # {}
                     THEN SFCOUNT + KthOf(TileSympalMatch(w, t), 0)
                     ELSE w.tiles[t]],
        !.filters = st.filters,
        !.filter_indices = [f \in DOMAIN st.filter_indices |->
                              IF f >= st.normal_f /\ f < st.normal_f + st.sympal_f
                              THEN st.palette[f - st.normal_f]
                              ELSE st.filter_indices[f]],
        !.sympal_filter_map = st.sympal_filter_map,
        !.normal_filter_count = st.normal_f,
        !.sympal_filter_count = st.sympal_f,
        !.filter_count = st.filters_set]

(***************************************************************************)
(* designPaletteTiles                                                      *)
(***************************************************************************)
DesignPaletteTiles(w) ==
  [w EXCEPT !.tiles = [t \in Tiles(w) |->
      LET value == w.tiles[t]
      IN IF value = MASK_TILE THEN value
         ELSE IF value >= SFCOUNT
         THEN IF w.sympal_filter_map[value - SFCOUNT] # UNUSED_SYMPAL
              THEN w.normal_filter_count + w.sympal_filter_map[value - SFCOUNT]
              ELSE TODO_TILE
         ELSE value]]

(***************************************************************************)
(* designTiles.  passes is never incremented and p is never set back to    *)
(* the start of the tile map, so the code after "passes > 0" is never run: *)
(* one pass assigns the tiles, and the while loop then goes on reading     *)
(* past the end of the tile map (see the action DesignTilesStep).          *)
(***************************************************************************)
\* The neighbour entry p[off] of tile t, or MASK_TILE where the code does
\* not read one.
NeighborTile(tiles, w, t, dx, dy) ==
  LET tx == t % w.tiles_x
      ty == t \div w.tiles_x
  IN IF dy = -1 /\ ty = 0 THEN MASK_TILE
     ELSE IF dx = -1 /\ tx = 0 THEN MASK_TILE
     ELSE IF dx = 1 /\ tx >= w.tiles_x - 1 THEN MASK_TILE
     ELSE tiles[t + dx + dy * w.tiles_x]

\* entropy of filter slot f for tile t after the neighbour nudges.
TileFilterEntropy(tiles, w, t, f, ee) ==
  LET cells == TileUnmasked(w, t)
      codes == BagOfCells(cells, [i \in cells |-> CellResidual(w.P, w.filters[f], i)])
      e0 == EEEntropy(ee, codes)
      e1 == IF e0 = 0 THEN e0 - 1 ELSE e0
      e2 == IF f = NeighborTile(tiles, w, t, -1, 0) THEN e1 - 1 ELSE e1
      e3 == IF f = NeighborTile(tiles, w, t, 0, -1) THEN e2 - 1 ELSE e2
      e4 == IF f = NeighborTile(tiles, w, t, -1, -1) THEN e3 - 1 ELSE e3
  IN IF f = NeighborTile(tiles, w, t, 1, -1) THEN e4 - 1 ELSE e4

\* The last slot of the lowest entropy (lowest_entropy >= entropy).
BestFilterIndexLast(tiles, w, t, ee) ==
  CHOOSE f \in 0..(w.filter_count - 1) :
    \A h \in 0..(w.filter_count - 1) :
      LET ef == TileFilterEntropy(tiles, w, t, f, ee)
          eh == TileFilterEntropy(tiles, w, t, h, ee)
      IN ef < eh \/ (ef = eh /\ f >= h)

\* bestFilterIndex: the first slot of the lowest entropy.
BestFilterIndex(tiles, w, t, ee) ==
  CHOOSE f \in 0..(w.filter_count - 1) :
    \A h \in 0..(w.filter_count - 1) :
      LET ef == TileFilterEntropy(tiles, w, t, f, ee)
          eh == TileFilterEntropy(tiles, w, t, h, ee)
      IN ef < eh \/ (ef = eh /\ f <= h)

RECURSIVE DesignTilesPass(_, _, _)
\* The first pass from tile t on; nothing is ever added to ee.
DesignTilesPass(tiles, w, t) ==
  IF t >= w.tiles_count THEN tiles
  ELSE IF tiles[t] >= w.normal_filter_count THEN DesignTilesPass(tiles, w, t + 1)
  ELSE DesignTilesPass([tiles EXCEPT ![t] = BestFilterIndex(tiles, w, t, EEInit)],
                       w, t + 1)

DesignTiles(w) == [w EXCEPT !.tiles = DesignTilesPass(w.tiles, w, 0)]

(***************************************************************************)
(* computeResiduals                                                        *)
(***************************************************************************)
ComputeResiduals(w) ==
  [w EXCEPT !.residuals = [i \in Cells(w.P) |->
      IF GetTile(w, i) < w.normal_filter_count /\ ~w.P.mask[i]
      THEN CellResidual(w.P, w.filters[GetTile(w, i)], i)
      ELSE w.residuals[i]]]

(***************************************************************************)
(* designRowFilters.  p is set to the start of the tile map once, before   *)
(* the passes: a pass after the first reads its tile entries past the end  *)
(* of the map.  The workspace entries of masked tiles are never written.   *)
(* prev stays 0 throughout.                                                *)
(***************************************************************************)
\* *p for the k-th increment of p.
TileRead(w, k) == IF k < w.tiles_count THEN w.tiles[k] ELSE Uninit(w.g, k)

U8(v) == v % 256

\* The RF_A code of filter f after prev.
RowPrevCode(f, num_filters, prev) ==
  LET fprev == U8(f + num_filters - prev)
  IN IF fprev >= num_filters THEN fprev - num_filters ELSE fprev

\* codes after the tiles of row ty have been read in the given pass.
RowCodes(codes, w, pass, ty) ==
  [k \in DOMAIN codes |->
     LET f == TileRead(w, pass * w.tiles_count + ty * w.tiles_x + (k % w.tiles_x))
     IN IF f = MASK_TILE THEN codes[k]
        ELSE IF k < w.tiles_x THEN f
        ELSE RowPrevCode(f, w.filter_count, 0)]

\* One row of one pass: st is [ee, codes, trf, total].
RowFilterStep(st, w, pass, ty) ==
  LET codes == RowCodes(st.codes, w, pass, ty)
      block0 == BagOfIdx(codes, 0..(w.tiles_x - 1))
      block1 == BagOfIdx(codes, w.tiles_x..(2 * w.tiles_x - 1))
      ee == IF pass > 0
            THEN EESubtract(st.ee, IF st.trf[ty] = 0 THEN block0 ELSE block1)
            ELSE st.ee
      e0 == EEEntropy(ee, block0)
      e1 == EEEntropy(ee, block1)
      best_i == IF e0 > e1 THEN 1 ELSE 0
      best_e == IF e0 > e1 THEN e1 ELSE e0
  IN [ee |-> EEAdd(ee, IF best_i = 0 THEN block0 ELSE block1),
      codes |-> codes,
      trf |-> [st.trf EXCEPT ![ty] = best_i],
      total |-> (IF ty = 0 THEN 0 ELSE st.total) + 1 + best_e]

RECURSIVE RowFilterLoop(_, _, _)
\* The rows of all passes from step k on (pass = k \div tiles_y).
RowFilterLoop(st, w, k) ==
  IF k >= MAX_ROW_PASSES * w.tiles_y THEN st
  ELSE RowFilterLoop(RowFilterStep(st, w, k \div w.tiles_y, k % w.tiles_y), w, k + 1)

DesignRowFilters(w) ==
  LET st == RowFilterLoop([ee |-> EEInit,
                           codes |-> [k \in 0..(2 * w.tiles_x - 1) |-> Uninit(w.g, k)],
                           trf |-> w.tile_row_filters,
                           total |-> 0], w, 0)
  IN [w EXCEPT !.tile_row_filters = st.trf, !.row_filter_entropy = st.total]

(***************************************************************************)
(* The raster sweep over the residuals that designChaos,                   *)
(* initializeEncoders and simulate share: the chaos model is advanced once *)
(* per cell, and a cell of a normal tile that is not masked is coded under *)
(* the bin the model gives.                                                *)
(***************************************************************************)
CellSkipped(w, i) ==
  GetTile(w, i) = MASK_TILE \/ w.P.mask[i] \/ GetTile(w, i) >= w.normal_filter_count

RECURSIVE Sweep(_, _, _, _)
\* From cell i on; acc is the sequence of <<bin, residual>> coded so far.
Sweep(w, c, i, acc) ==
  IF i >= w.P.size_x * w.P.size_y THEN [chaos |-> c, coded |-> acc]
  ELSE LET c1 == IF CellX(w.P, i) = 0 THEN ChaosStartRow(c) ELSE c
       IN IF CellSkipped(w, i) THEN Sweep(w, ChaosZero(c1), i + 1, acc)
          ELSE Sweep(w, ChaosStore(c1, w.residuals[i], w.P.num_syms), i + 1,
                     Append(acc, <<ChaosGet(c1), w.residuals[i]>>))

\* The residuals a sweep codes under bin b, as a bag.
CodedBag(coded, b) ==
  BagOfIdx([k \in DOMAIN coded |-> coded[k][2]], {k \in DOMAIN coded : coded[k][1] = b})

(***************************************************************************)
(* designChaos                                                             *)
(***************************************************************************)
ChaosLevelEntropy(w, chaos_levels) ==
  LET coded == Sweep(w, ChaosStart(ChaosInit(chaos_levels, w.P.size_x)), 0, <<>>).coded
  IN SumTo([ii \in 0..(chaos_levels - 1) |->
              EEEntropyOverall(CodedBag(coded, ii)) + 5 * w.P.num_syms], chaos_levels)

\* The chaos_levels of the highest total (best_entropy < entropy).
WorstChaosLevels(w) ==
  CHOOSE best \in 1..(MAX_CHAOS_LEVELS - 1) :
    \A other \in 1..(MAX_CHAOS_LEVELS - 1) :
      \/ ChaosLevelEntropy(w, best) > ChaosLevelEntropy(w, other)
      \/ ChaosLevelEntropy(w, best) = ChaosLevelEntropy(w, other) /\ best <= other

BestChaosLevels(w) ==
  CHOOSE best \in 1..(MAX_CHAOS_LEVELS - 1) :
    \A other \in 1..(MAX_CHAOS_LEVELS - 1) :
      \/ ChaosLevelEntropy(w, best) < ChaosLevelEntropy(w, other)
      \/ ChaosLevelEntropy(w, best) = ChaosLevelEntropy(w, other) /\ best <= other

DesignChaos(w) == [w EXCEPT !.chaos = ChaosInit(BestChaosLevels(w), w.P.size_x)]

(***************************************************************************)
(* The row-filter code of each tile that is not masked, as               *)
(* initializeEncoders, simulate and write compute it: prev is the filter   *)
(* of the previous such tile of an RF_PREV row.                            *)
(***************************************************************************)
RowPrevFilter(w, t) ==
  LET before == {u \in Tiles(w) : /\ u \div w.tiles_x = t \div w.tiles_x
                                  /\ u < t /\ w.tiles[u] # MASK_TILE}
  IN IF before = {} THEN 0
     ELSE w.tiles[CHOOSE u \in before : \A v \in before : v <= u]

RowFilterCode(w, t) ==
  IF w.tile_row_filters[t \div w.tiles_x] = RF_PREV
  THEN RowPrevCode(w.tiles[t], w.filter_count, RowPrevFilter(w, t))
  ELSE w.tiles[t]

RowFilterCodes(w) ==
  LET live == {t \in Tiles(w) : w.tiles[t] # MASK_TILE}
  IN BagOfCells(live, [t \in live |-> RowFilterCode(w, t)])

(***************************************************************************)
(* initializeEncoders                                                      *)
(***************************************************************************)
InitializeEncoders(w) ==
  LET sw == Sweep(w, ChaosStart(w.chaos), 0, <<>>)
      added == [b \in DOMAIN w.encoder |-> EncAdd(w.encoder[b], CodedBag(sw.coded, b))]
  IN [w EXCEPT
        !.chaos = sw.chaos,
        !.encoder = [b \in DOMAIN w.encoder |->
                       IF b < w.chaos.bins THEN EncFinalize(added[b]) ELSE added[b]],
        !.row_filter_encoder =
           IF w.fe = <<>>
           THEN EncFinalize(EncAdd(w.row_filter_encoder, RowFilterCodes(w)))
           ELSE w.row_filter_encoder]

(***************************************************************************)
(* The nested _filter_encoder.  Its mask is the parent's IsMasked, which   *)
(* reads the parent's tile map as it is at the time of the call.           *)
(***************************************************************************)
IsMasked(w, x, y) == TileRead(w, x + y * w.tiles_x) = MASK_TILE

Inner(w) ==
  LET in == w.fe[1]
  IN [in EXCEPT !.P.mask = [i \in Cells(in.P) |->
                              IsMasked(w, CellX(in.P, i), CellY(in.P, i))]]

(***************************************************************************)
(* simulate: the bit count and the object as the call leaves it.           *)
(***************************************************************************)
TileBitsFieldBC(P) ==
  IF P.max_bits - P.min_bits > 0 THEN BSR32(P.max_bits - P.min_bits) + 1 ELSE 0

\* Lines 894-907: the overhead terms.
SimulateOverhead(w) ==
  4 + w.chaos.bins * 5 * w.P.num_syms
  + TileBitsFieldBC(w.P)
  + 5 + 7 * w.normal_filter_count
  + 4 + 8 * w.sympal_filter_count

\* Lines 914-938: the row-filter codes of the tiles.
SimulateRowFilters(w) ==
  LET live == {t \in Tiles(w) : w.tiles[t] # MASK_TILE}
  IN SumBag([t \in live |-> EncSimulate(w.row_filter_encoder, RowFilterCode(w, t))], live)

\* Lines 941-971: the residuals.
SimulateResiduals(w) ==
  LET sw == Sweep(w, ChaosStart(w.chaos), 0, <<>>)
  IN [chaos |-> sw.chaos,
      bits |-> SumTo([k \in 0..(Len(sw.coded) - 1) |->
                        EncSimulate(w.encoder[sw.coded[k + 1][1]], sw.coded[k + 1][2])],
                     Len(sw.coded))]

RECURSIVE Simulate(_)
Simulate(w) ==
  LET in == IF w.fe = <<>> THEN [bits |-> 0, w |-> w] ELSE Simulate(Inner(w))
      res == SimulateResiduals(w)
  IN [bits |-> SimulateOverhead(w) + 1
               + (IF w.fe = <<>> THEN SimulateRowFilters(w) ELSE in.bits)
               + res.bits,
      w |-> [w EXCEPT !.chaos = res.chaos,
                      !.fe = IF w.fe = <<>> THEN <<>> ELSE <<in.w>>]]

(***************************************************************************)
(* process and recurseCompress.                                            *)
(***************************************************************************)
\* Lines 977-993.
ProcessBegin(w, P) ==
  [w EXCEPT !.P = P, !.fe = <<>>,
            !.tile_bits_field_bc = TileBitsFieldBC(P),
            !.best_entropy = INT_MAX, !.best_bits = P.max_bits]

\* The Parameters recurseCompress hands to the nested writer.
InnerParams(w) ==
  [w.P EXCEPT !.data = w.tiles, !.num_syms = w.filter_count,
              !.size_x = w.tiles_x, !.size_y = w.tiles_y,
              !.mask = [i \in Tiles(w) |-> w.tiles[i] = MASK_TILE]]

\* The stages before recurseCompress.
StagesToRowFilters(w) ==
  DesignRowFilters(ComputeResiduals(DesignTiles(DesignPaletteTiles(
    DesignFilters(DesignPaletteFilters(MaskTiles(w)))))))

\* The loop goes on whatever the cost.
KeepsSearchingAlways(w, entropy) == TRUE

\* The loop goes on at an equal cost as well (best_entropy >= entropy).
KeepsSearchingOnEqual(w, entropy) == w.best_entropy >= entropy

\* Lines 1031-1045: the verdict on one tile size; TRUE if the loop goes on.
KeepsSearching(w, entropy) == w.best_entropy > entropy

RecordBest(w, entropy, bits) ==
  IF KeepsSearching(w, entropy)
  THEN [w EXCEPT !.best_entropy = entropy, !.best_bits = bits]
  ELSE w

\* The nested writer is kept only if it costs less.
RecurseKeepsStrict(recurse_entropy, row_filter_entropy) ==
  recurse_entropy < row_filter_entropy

\* Lines 740-747: the nested writer is kept unless it costs more than the
\* row filters.
RecurseKeeps(recurse_entropy, row_filter_entropy) ==
  ~(recurse_entropy > row_filter_entropy)

\* Lines 738-747: recurseCompress once the nested process() has returned
\* the object in.
RecurseDecide(w, in) ==
  IF RecurseKeeps(in.best_entropy, w.row_filter_entropy)
  THEN [w EXCEPT !.fe = <<in>>]
  ELSE [w EXCEPT !.fe = <<>>]

\* recurseCompress, given what the nested process() leaves if it is run.
RecurseOutcome(w, in) ==
  IF w.tiles_count < RECURSE_THRESH_COUNT THEN w ELSE RecurseDecide(w, in)

\* process() as a loop state [done, w, bits]: while not done, w is the
\* object after designRowFilters for the tile size bits.
\* Lines 998-1025: the head of the loop for tile size b, or the return.
LoopEnter(w, b) ==
  IF b <= w.P.max_bits
  THEN [done |-> FALSE, w |-> StagesToRowFilters(InitBits(w, b)), bits |-> b]
  ELSE [done |-> TRUE, w |-> w, bits |-> b]

\* Lines 977-998: process(P) on a new MonoWriter up to its first
\* recurseCompress.
LoopStart(P, g) == LoopEnter(ProcessBegin(FreshWriter(P, g), P), P.min_bits)

\* Lines 1031-1045 on the result of simulate().
LoopScored(sim, bits) ==
  IF KeepsSearching(sim.w, sim.bits)
  THEN LoopEnter(RecordBest(sim.w, sim.bits, bits), bits + 1)
  ELSE [done |-> TRUE, w |-> sim.w, bits |-> bits]

\* Lines 1026-1045: the rest of one iteration, given the nested object.
LoopAdvance(s, in) ==
  LoopScored(Simulate(InitializeEncoders(DesignChaos(RecurseOutcome(s.w, in)))), s.bits)

RECURSIVE ProcessFrom(_)
\* The loop of process() run from loop state s to the return.
ProcessFrom(s) ==
  IF s.done THEN s.w
  ELSE ProcessFrom(LoopAdvance(s,
         IF s.w.tiles_count < RECURSE_THRESH_COUNT THEN s.w
         ELSE ProcessFrom(LoopStart(InnerParams(s.w), s.w.g))))

\* process(params) run to its return on a new MonoWriter: the object (the
\* return value is its best_entropy).
Process(P, g) == ProcessFrom(LoopStart(P, g))

RecurseCompress(w) ==
  IF w.tiles_count < RECURSE_THRESH_COUNT THEN w
  ELSE RecurseDecide(w, Process(InnerParams(w), w.g))

(***************************************************************************)
(* The write pass.  What the ImageWriter receives is a sequence of fields  *)
(* [k: what the field is, v: the value written, n: its length in bits].    *)
(***************************************************************************)
Field(k, v, n) == [k |-> k, v |-> v, n |-> n]

\* The fields [lo..hi) of a per-index field function, in order.
RECURSIVE FieldsFrom(_, _, _)
FieldsFrom(f, lo, hi) == IF lo >= hi THEN <<>> ELSE <<f[lo]>> \o FieldsFrom(f, lo + 1, hi)

\* initializeWriter
InitializeWriter(w) ==
  [w EXCEPT !.tile_seen = Resized(w.tile_seen, w.tiles_x, w.g),
            !.chaos = ChaosStart(w.chaos)]

\* writeBits(value, n) keeps the low n bits of the value.
LowBits(v, n) == v % (2 ^ n)

\* Lines 1064-1118: the fields before the recurse bit.
TableHeader(w) ==
  (IF w.tile_bits_field_bc > 0
   THEN <<Field("tile_bits", LowBits(w.tile_bits - w.P.min_bits, w.tile_bits_field_bc),
                w.tile_bits_field_bc)>>
   ELSE <<>>)
  \o <<Field("sympal_count", LowBits(w.sympal_filter_count - 1, 4), 4)>>
  \o FieldsFrom([f \in 0..(MAX_PALETTE - 1) |-> Field("sympal", w.sympal[f], 8)],
                0, w.sympal_filter_count)
  \o <<Field("normal_count", LowBits(w.normal_filter_count - SFFIXED, 5), 5)>>
  \o FieldsFrom([f \in 0..(MAX_FILTERS - 1) |-> Field("filter_index", w.filter_indices[f], 7)],
                SFFIXED, w.normal_filter_count)
  \o <<Field("chaos_count", LowBits(w.chaos.bins - 1, 4), 4)>>
  \o FieldsFrom([b \in 0..(MAX_CHAOS_LEVELS - 1) |->
                   Field("table", b, EncTableBits(w.P.num_syms))], 0, w.chaos.bins)

RECURSIVE WriteTables(_)
\* writeTables: the object afterwards and the fields written.
WriteTables(w) ==
  IF w.fe # <<>>
  THEN LET in == WriteTables(Inner(w))
       IN [w |-> InitializeWriter([w EXCEPT !.fe = <<in.w>>]),
           out |-> TableHeader(w) \o <<Field("recurse", 1, 1)>> \o in.out]
  ELSE [w |-> InitializeWriter(w),
        out |-> TableHeader(w) \o <<Field("recurse", 0, 1),
                                    Field("table", 0, EncTableBits(w.filter_count))>>]

\* The tile-seen vector is left as it is.
ClearTileSeenKept(w) == w

\* Line 1170: _tile_seen.fill_00().
ClearTileSeen(w) == [w EXCEPT !.tile_seen = [tx \in DOMAIN w.tile_seen |-> 0]]

RECURSIVE WriteRowHeader(_, _)
\* writeRowHeader(y)
WriteRowHeader(w, y) ==
  LET w1 == [w EXCEPT !.chaos = ChaosStartRow(w.chaos)]
      ty == y \div TileSize(w)
  IN IF y % TileSize(w) # 0 THEN [w |-> w1, out |-> <<>>]
     ELSE LET w2 == ClearTileSeen(w1)
          IN IF w.fe # <<>>
             THEN LET in == WriteRowHeader(Inner(w2), ty)
                  IN [w |-> [w2 EXCEPT !.fe = <<in.w>>], out |-> in.out]
             ELSE [w |-> [w2 EXCEPT !.prev_filter = 0],
                   out |-> <<Field("row_filter", w.tile_row_filters[ty], 1)>>]

\* Lines 1229-1239: the tile's filter through the row-filter encoder.
WriteRowFilterCode(w, f, ty) ==
  LET rf == IF w.tile_row_filters[ty] = RF_PREV
            THEN RowPrevCode(f, w.filter_count, w.prev_filter)
            ELSE f
  IN [w |-> IF w.tile_row_filters[ty] = RF_PREV THEN [w EXCEPT !.prev_filter = f] ELSE w,
      out |-> <<Field("filter", rf, EncSimulate(w.row_filter_encoder, rf))>>]

\* Lines 1248-1264: the cell's payload under the filter _write_filter.
WritePayload(w, x, y) ==
  IF w.write_filter >= w.normal_filter_count
  THEN [w |-> [w EXCEPT !.chaos = ChaosZero(w.chaos)], out |-> <<>>]
  ELSE LET residual == w.residuals[x + y * w.P.size_x]
           chaos == ChaosGet(w.chaos)
       IN [w |-> [w EXCEPT !.chaos = ChaosStore(w.chaos, residual, w.P.num_syms)],
           out |-> <<Field("residual", residual, EncSimulate(w.encoder[chaos], residual))>>]

\* Lines 1203-1206: a masked pixel zeroes the chaos model, and write goes on.
WriteMasked(w, x, y) ==
  IF w.P.mask[x + y * w.P.size_x] THEN [w EXCEPT !.chaos = ChaosZero(w.chaos)] ELSE w

RECURSIVE Write(_, _, _)
\* write(x, y)
Write(w, x, y) ==
  LET w1 == WriteMasked(w, x, y)
      tx == x \div TileSize(w)
      ty == y \div TileSize(w)
      f == w.tiles[tx + ty * w.tiles_x]
      seen == IF w1.tile_seen[tx] # 0 THEN [w |-> w1, out |-> <<>>]
              ELSE LET w2 == [w1 EXCEPT !.tile_seen[tx] = 1, !.write_filter = f]
                   IN IF f = MASK_TILE THEN [w |-> w2, out |-> <<>>]
                      ELSE IF w.fe # <<>>
                      THEN LET in == Write(Inner(w2), tx, ty)
                           IN [w |-> [w2 EXCEPT !.fe = <<in.w>>], out |-> in.out]
                      ELSE WriteRowFilterCode(w2, f, ty)
      pay == WritePayload(seen.w, x, y)
  IN [w |-> pay.w, out |-> seen.out \o pay.out]

(***************************************************************************)
(* The reader of section 4.9 of the specification (MonoReader is not among *)
(* the sources): it takes the fields in the order listed there and inverts *)
(* each residual.  d.ok turns FALSE when the field found is not the field  *)
(* the reader is at; d.data collects the values read (0 at masked cells).  *)
(***************************************************************************)
Tok(toks, pos) == IF pos >= 1 /\ pos <= Len(toks) THEN toks[pos] ELSE Field("end", 0, 0)

AllKind(toks, lo, n, kind) == \A k \in 0..(n - 1) : Tok(toks, lo + k).k = kind

\* The Parameters of the nested reader for a parent with these tiles.
ReaderInnerParams(P, tile_bits, filter_count) ==
  LET ts == 2 ^ tile_bits
      tx == (P.size_x + ts - 1) \div ts
      ty == (P.size_y + ts - 1) \div ts
  IN [P EXCEPT !.size_x = tx, !.size_y = ty, !.num_syms = filter_count,
               !.data = [t \in 0..(tx * ty - 1) |-> 0],
               !.mask = [t \in 0..(tx * ty - 1) |->
                           \A i \in Cells(P) :
                             (CellX(P, i) \div ts) + (CellY(P, i) \div ts) * tx = t
                               => P.mask[i]]]

RECURSIVE ReadTables(_, _, _)
\* The header from field pos on.
ReadTables(P, toks, pos) ==
  LET bc == TileBitsFieldBC(P)
      tile_bits == IF bc > 0 THEN Tok(toks, pos).v + P.min_bits ELSE P.min_bits
      p1 == IF bc > 0 THEN pos + 1 ELSE pos
      sympal_count == (Tok(toks, p1).v + 1) % 16
      p2 == p1 + 1 + sympal_count
      normal_count == Tok(toks, p2).v + SFFIXED
      p3 == p2 + 1 + (normal_count - SFFIXED)
      bins == Tok(toks, p3).v + 1
      p4 == p3 + 1 + bins
      rec == Tok(toks, p4).v = 1
      ts == 2 ^ tile_bits
      tiles_x == (P.size_x + ts - 1) \div ts
      in == IF rec
            THEN ReadTables(ReaderInnerParams(P, tile_bits, normal_count + sympal_count),
                            toks, p4 + 1)
            ELSE [ok |-> Tok(toks, p4 + 1).k = "table", pos |-> p4 + 2]
  IN [P |-> [P EXCEPT !.data = [i \in Cells(P) |-> 0]],
      ok |-> /\ bc > 0 => Tok(toks, pos).k = "tile_bits"
             /\ Tok(toks, p1).k = "sympal_count"
             /\ AllKind(toks, p1 + 1, sympal_count, "sympal")
             /\ Tok(toks, p2).k = "normal_count"
             /\ AllKind(toks, p2 + 1, normal_count - SFFIXED, "filter_index")
             /\ Tok(toks, p3).k = "chaos_count"
             /\ AllKind(toks, p3 + 1, bins, "table")
             /\ Tok(toks, p4).k = "recurse"
             /\ in.ok,
      pos |-> in.pos,
      tile_bits |-> tile_bits, tiles_x |-> tiles_x,
      sympal |-> [f \in 0..(sympal_count - 1) |-> Tok(toks, p1 + 1 + f).v],
      sympal_count |-> sympal_count,
      normal_count |-> normal_count,
      filters |-> [f \in 0..(normal_count - 1) |->
                     IF f < SFFIXED THEN f ELSE Tok(toks, p2 + 1 + f - SFFIXED).v],
      rec |-> rec,
      in |-> IF rec THEN <<in>> ELSE <<>>,
      trf |-> 0, prev |-> 0,
      seen |-> [tx \in 0..(tiles_x - 1) |-> 0],
      tmap |-> [t \in 0..(tiles_x * ((P.size_y + ts - 1) \div ts) - 1) |-> 0]]

RECURSIVE ReadRowHeader(_, _, _)
ReadRowHeader(d, toks, y) ==
  LET ts == 2 ^ d.tile_bits
  IN IF y % ts # 0 THEN d
     ELSE LET d1 == [d EXCEPT !.seen = [tx \in DOMAIN d.seen |-> 0]]
          IN IF d.rec
             THEN LET in == ReadRowHeader([d.in[1] EXCEPT !.pos = d.pos], toks, y \div ts)
                  IN [d1 EXCEPT !.in = <<in>>, !.pos = in.pos, !.ok = d.ok /\ in.ok]
             ELSE [d1 EXCEPT !.trf = Tok(toks, d.pos).v, !.prev = 0,
                             !.pos = d.pos + 1,
                             !.ok = d.ok /\ Tok(toks, d.pos).k = "row_filter"]

RECURSIVE ReadCell(_, _, _, _)
ReadCell(d, toks, x, y) ==
  LET P == d.P
      i == x + y * P.size_x
      ts == 2 ^ d.tile_bits
      tx == x \div ts
      ty == y \div ts
      t == tx + ty * d.tiles_x
      filter_count == d.normal_count + d.sympal_count
  IN IF P.mask[i] THEN d
     ELSE
       LET d1 == IF d.seen[tx] # 0 THEN d
                 ELSE IF d.rec
                 THEN LET in == ReadCell([d.in[1] EXCEPT !.pos = d.pos], toks, tx, ty)
                      IN [d EXCEPT !.in = <<in>>, !.pos = in.pos, !.ok = d.ok /\ in.ok,
                                   !.seen[tx] = 1, !.tmap[t] = in.P.data[t]]
                 ELSE LET rf == Tok(toks, d.pos).v
                          f == IF d.trf = RF_PREV THEN (rf + d.prev) % filter_count ELSE rf
                      IN [d EXCEPT !.pos = d.pos + 1,
                                   !.ok = d.ok /\ Tok(toks, d.pos).k = "filter",
                                   !.prev = IF d.trf = RF_PREV THEN f ELSE d.prev,
                                   !.seen[tx] = 1, !.tmap[t] = f]
           f == d1.tmap[t]
       IN IF f >= d1.normal_count
          THEN IF f - d1.normal_count < d1.sympal_count
               THEN [d1 EXCEPT !.P.data[i] = d1.sympal[f - d1.normal_count]]
               ELSE [d1 EXCEPT !.ok = FALSE]
          ELSE [d1 EXCEPT
                  !.P.data[i] = (Tok(toks, d1.pos).v
                                 + Predict(d1.filters[f], d1.P, x, y)) % P.num_syms,
                  !.pos = d1.pos + 1,
                  !.ok = d1.ok /\ Tok(toks, d1.pos).k = "residual"]

RECURSIVE ReadCells(_, _, _)
\* The rows from cell i on: the row header at x = 0, then the cell.
ReadCells(d, toks, i) ==
  IF i >= d.P.size_x * d.P.size_y THEN d
  ELSE LET x == CellX(d.P, i)
           y == CellY(d.P, i)
           d1 == IF x = 0 THEN ReadRowHeader(d, toks, y) ELSE d
       IN ReadCells(ReadCell(d1, toks, x, y), toks, i + 1)

\* The whole stream read for the given Parameters.
Read(P, toks) ==
  LET d == ReadCells(ReadTables(P, toks, 1), toks, 0)
  IN [d EXCEPT !.ok = d.ok /\ d.pos = Len(toks) + 1]

(***************************************************************************)
(* A whole run as one value: process() on a new MonoWriter, then the write *)
(* pass of the owner over every row and cell.                              *)
(***************************************************************************)
RECURSIVE WriteCells(_, _)
\* r is [w, out]; the cells from i on, row header first at x = 0.
WriteCells(r, i) ==
  IF i >= r.w.P.size_x * r.w.P.size_y THEN r
  ELSE LET x == CellX(r.w.P, i)
           y == CellY(r.w.P, i)
           h == IF x = 0 THEN WriteRowHeader(r.w, y) ELSE [w |-> r.w, out |-> <<>>]
           c == Write(h.w, x, y)
       IN WriteCells([w |-> c.w, out |-> r.out \o h.out \o c.out], i + 1)

WritePass(wr) == WriteCells(WriteTables(wr), 0)

Encode(P, g) == WritePass(Process(P, g))

\* The bits of a sequence of fields.
EmittedBits(toks) == SumTo([k \in 0..(Len(toks) - 1) |-> toks[k + 1].n], Len(toks))

(***************************************************************************)
(* The inputs explored.                                                    *)
(***************************************************************************)
SizeX == 4
SizeY == 2
NumSymsSet == {2, 3}
MinBitsTop == 1

\* Row contents: all 0, all num_syms-1, alternating, pairs.
RowPatterns == 0..3
RowValue(k, n, x) ==
  CASE k = 0 -> 0
    [] k = 1 -> n - 1
    [] k = 2 -> x % 2
    [] OTHER -> (x \div 2) % n

\* Masks: none, the first cell, a cell inside, the left tile columns, all.
MaskPatterns == 0..4
MaskValue(m, x, y) ==
  CASE m = 0 -> FALSE
    [] m = 1 -> x = 0 /\ y = 0
    [] m = 2 -> x = 1 /\ y = 1
    [] m = 3 -> x < 2
    [] OTHER -> TRUE

\* The matrix is SizeX x SizeY with the patterns along its rows, or (tr) the
\* transposed one, SizeY x SizeX with the patterns along its columns.
InputParams(rows, n, m, minb, maxb, tr) ==
  LET sx == IF tr THEN SizeY ELSE SizeX
      sy == IF tr THEN SizeX ELSE SizeY
      line(i) == IF tr THEN i % sx ELSE i \div sx
      at(i) == IF tr THEN i \div sx ELSE i % sx
  IN [data |-> [i \in 0..(sx * sy - 1) |-> RowValue(rows[line(i)], n, at(i))],
      mask |-> [i \in 0..(sx * sy - 1) |-> MaskValue(m, at(i), line(i))],
      size_x |-> sx, size_y |-> sy, num_syms |-> n,
      min_bits |-> minb, max_bits |-> maxb, max_filters |-> max_filters]

(***************************************************************************)
(* The state machine: one MonoWriter, process() on it stage by stage, and  *)
(* then the owner's write pass (writeTables, then per row writeRowHeader   *)
(* and write for x increasing), with simulate() callable by the owner.     *)
(***************************************************************************)
VARIABLES
  params,     \* the Parameters handed to process()
  w,          \* the MonoWriter
  pc,         \* where the run is
  bits,       \* the loop variable of process()
  tried,      \* per tile size tried: [bits, entropy], in order
  out,        \* the fields written so far
  wx, wy,     \* the cell the write pass is at
  simcalls    \* simulate() calls made by the owner

vars == <<params, w, pc, bits, tried, out, wx, wy, simcalls>>

MaxSimCalls == 1

Init ==
  \E rows \in [0..(SizeY - 1) -> RowPatterns], n \in NumSymsSet, m \in MaskPatterns,
     minb \in 1..MinBitsTop, g \in 0..MaxGarbage, tr \in BOOLEAN :
    \E maxb \in minb..MaxBitsTop :
      /\ params = InputParams(rows, n, m, minb, maxb, tr)
      /\ w = FreshWriter(InputParams(rows, n, m, minb, maxb, tr), g)
      /\ pc = "process"
      /\ bits = 0
      /\ tried = <<>>
      /\ out = <<>>
      /\ wx = 0
      /\ wy = 0
      /\ simcalls = 0

\* The head of the for loop for the given bits, or the return.
EnterBits(wr, b) ==
  IF b <= params.max_bits
  THEN /\ w' = InitBits(wr, b)
       /\ bits' = b
       /\ pc' = "maskTiles"
  ELSE /\ w' = wr
       /\ bits' = b
       /\ pc' = "processed"

ProcessStart ==
  /\ pc = "process"
  /\ EnterBits(ProcessBegin(w, params), params.min_bits)
  /\ UNCHANGED <<params, tried, out, wx, wy, simcalls>>

Stage(from, to, wr) ==
  /\ pc = from
  /\ w' = wr
  /\ pc' = to
  /\ UNCHANGED <<params, bits, tried, out, wx, wy, simcalls>>

MaskTilesStep == Stage("maskTiles", "designPaletteFilters", MaskTiles(w))
DesignPaletteFiltersStep == Stage("designPaletteFilters", "designFilters", DesignPaletteFilters(w))
DesignFiltersStep == Stage("designFilters", "designPaletteTiles", DesignFilters(w))
DesignPaletteTilesStep == Stage("designPaletteTiles", "designTiles", DesignPaletteTiles(w))

\* designTiles: after the pass the loop reads and writes past the end of
\* the tile map; the run is lost there or the function is left.
DesignTilesStep ==
  \/ Stage("designTiles", "computeResiduals", DesignTiles(w))
  \/ Stage("designTiles", "overrun", DesignTiles(w))

ComputeResidualsStep == Stage("computeResiduals", "designRowFilters", ComputeResiduals(w))
DesignRowFiltersStep == Stage("designRowFilters", "recurseCompress", DesignRowFilters(w))

\* recurseCompress: the nested process() runs through the same designTiles.
RecurseCompressStep ==
  \/ Stage("recurseCompress", "designChaos", RecurseCompress(w))
  \/ /\ w.tiles_count >= RECURSE_THRESH_COUNT
     /\ Stage("recurseCompress", "overrun", w)

DesignChaosStep == Stage("designChaos", "initializeEncoders", DesignChaos(w))
InitializeEncodersStep == Stage("initializeEncoders", "simulate", InitializeEncoders(w))

\* Lines 1031-1045 and the loop increment.
SimulateStep ==
  /\ pc = "simulate"
  /\ LET sim == Simulate(w)
     IN /\ tried' = Append(tried, [bits |-> bits, entropy |-> sim.bits])
        /\ IF KeepsSearching(w, sim.bits)
           THEN EnterBits(RecordBest(sim.w, sim.bits, bits), bits + 1)
           ELSE /\ w' = sim.w
                /\ bits' = bits
                /\ pc' = "processed"
  /\ UNCHANGED <<params, out, wx, wy, simcalls>>

WriteTablesStep ==
  /\ pc = "processed"
  /\ LET r == WriteTables(w)
     IN /\ w' = r.w
        /\ out' = out \o r.out
  /\ pc' = "rowHeader"
  /\ wx' = 0
  /\ wy' = 0
  /\ UNCHANGED <<params, bits, tried, simcalls>>

WriteRowHeaderStep ==
  /\ pc = "rowHeader"
  /\ LET r == WriteRowHeader(w, wy)
     IN /\ w' = r.w
        /\ out' = out \o r.out
  /\ pc' = "cell"
  /\ UNCHANGED <<params, bits, tried, wx, wy, simcalls>>

WriteStep ==
  /\ pc = "cell"
  /\ LET r == Write(w, wx, wy)
     IN /\ w' = r.w
        /\ out' = out \o r.out
  /\ IF wx + 1 < params.size_x
     THEN /\ wx' = wx + 1 /\ wy' = wy /\ pc' = "cell"
     ELSE /\ wx' = 0 /\ wy' = wy + 1
          /\ pc' = IF wy + 1 < params.size_y THEN "rowHeader" ELSE "finished"
  /\ UNCHANGED <<params, bits, tried, simcalls>>

\* The owner calls simulate() on the processed object.
SimulateCall ==
  /\ pc \in {"processed", "cell"}
  /\ simcalls < MaxSimCalls
  /\ w' = Simulate(w).w
  /\ simcalls' = simcalls + 1
  /\ UNCHANGED <<params, pc, bits, tried, out, wx, wy>>

Next ==
  \/ ProcessStart
  \/ MaskTilesStep
  \/ DesignPaletteFiltersStep
  \/ DesignFiltersStep
  \/ DesignPaletteTilesStep
  \/ DesignTilesStep
  \/ ComputeResidualsStep
  \/ DesignRowFiltersStep
  \/ RecurseCompressStep
  \/ DesignChaosStep
  \/ InitializeEncodersStep
  \/ SimulateStep
  \/ WriteTablesStep
  \/ WriteRowHeaderStep
  \/ WriteStep
  \/ SimulateCall

Spec == Init /\ [][Next]_vars

(***************************************************************************)
(* The same MonoWriter on wider matrices (specification SpecWide): three   *)
(* tile columns at tile size 2, each tile column uniform with a value of   *)
(* its own or alternating, so that the uniform values differ in how many   *)
(* tiles hold them.                                                        *)
(***************************************************************************)
WideSizeX == 6

\* kinds[t] < n: tile column t holds the value kinds[t]; kinds[t] = n: its
\* columns alternate 0, 1.
WideParams(kinds, n, m) ==
  [data |-> [i \in 0..(WideSizeX * SizeY - 1) |->
               IF kinds[(i % WideSizeX) \div 2] < n
               THEN kinds[(i % WideSizeX) \div 2]
               ELSE i % 2],
   mask |-> [i \in 0..(WideSizeX * SizeY - 1) |->
               MaskValue(m, i % WideSizeX, i \div WideSizeX)],
   size_x |-> WideSizeX, size_y |-> SizeY, num_syms |-> n,
   min_bits |-> 1, max_bits |-> 1, max_filters |-> max_filters]

InitWide ==
  \E n \in NumSymsSet, m \in 0..1, g \in 0..MaxGarbage, mf \in 1..max_filters :
    \E kinds \in [0..((WideSizeX - 1) \div 2) -> 0..n] :
      /\ params = [WideParams(kinds, n, m) EXCEPT !.max_filters = mf]
      /\ w = FreshWriter([WideParams(kinds, n, m) EXCEPT !.max_filters = mf], g)
      /\ pc = "process"
      /\ bits = 0
      /\ tried = <<>>
      /\ out = <<>>
      /\ wx = 0
      /\ wy = 0
      /\ simcalls = 0

SpecWide == InitWide /\ [][Next]_vars

(***************************************************************************)
(* The same state machine on larger matrices (specification SpecChaos):    *)
(* the first columns hold 0 and the rest a texture, so that the residuals  *)
(* are enough for a second chaos bin to pay for its table.                 *)
(***************************************************************************)
ChaosSizeX == 8
ChaosSizeY == 4
ChaosMaxBits == 3

Texture(sq, i) ==
  IF sq THEN ((i * i) \div 3) + (i \div ChaosSizeX) ELSE i + (i \div ChaosSizeX)

ChaosParams(sp, sq, tb) ==
  [data |-> [i \in 0..(ChaosSizeX * ChaosSizeY - 1) |->
               IF i % ChaosSizeX < sp THEN 0 ELSE Texture(sq, i) % 2],
   mask |-> [i \in 0..(ChaosSizeX * ChaosSizeY - 1) |-> FALSE],
   size_x |-> ChaosSizeX, size_y |-> ChaosSizeY, num_syms |-> 2,
   min_bits |-> tb, max_bits |-> tb, max_filters |-> max_filters]

InitChaos ==
  \E sp \in 0..(ChaosSizeX - 1), sq \in BOOLEAN, tb \in 1..ChaosMaxBits :
    /\ params = ChaosParams(sp, sq, tb)
    /\ w = FreshWriter(ChaosParams(sp, sq, tb), 0)
    /\ pc = "process"
    /\ bits = 0
    /\ tried = <<>>
    /\ out = <<>>
    /\ wx = 0
    /\ wy = 0
    /\ simcalls = 0

SpecChaos == InitChaos /\ [][Next]_vars

(***************************************************************************)
(* ImagePaletteWriter::initFromRGBA (specification SpecPalette).  params   *)
(* is the caller's input: the pixels as the u32 values a little-endian     *)
(* host reads from the RGBA bytes (R in the low byte, A in the high byte;  *)
(* swapLE leaves such a value as it is), the dominant-color mask and the   *)
(* LZ coverage.  w is the ImagePaletteWriter: _map as a function from the  *)
(* colors it holds to their index, _palette, _image, _enabled and          *)
(* _masked_palette.                                                        *)
(***************************************************************************)
PaletteWidth == 2
PaletteHeight == 2
PALETTE_MAX == 3

\* A color from its four bytes.
RGBA(r, g, b, a) == r + 256 * g + 65536 * b + 16777216 * a

\* Black and white, each at two alpha values.
ColorSet == {RGBA(v, v, v, a) : v \in {0, 255}, a \in {0, 127}}

Pixels == 0..(PaletteWidth * PaletteHeight - 1)

\* _mask->masked(x, y): the pixels the mask covers all have the mask color.
MaskChoices(rgba) ==
  {[enabled |-> FALSE, color |-> 0, masked |-> {}]}
    \cup UNION {{[enabled |-> TRUE, color |-> c, masked |-> s] :
                     s \in SUBSET {i \in Pixels : rgba[i] = c}} : c \in ColorSet}

PaletteInit ==
  \E rgba \in [Pixels -> ColorSet], visited \in SUBSET Pixels :
    \E mask \in MaskChoices(rgba) :
      /\ params = [rgba |-> rgba, mask |-> mask, visited |-> visited]
      /\ w = [map |-> <<>>, palette |-> <<>>, image |-> [i \in Pixels |-> 0],
              enabled |-> FALSE, masked_palette |-> 0]
      /\ pc = "generatePalette"
      /\ bits = 0
      /\ tried = <<>>
      /\ out = <<>>
      /\ wx = 0
      /\ wy = 0
      /\ simcalls = 0

RECURSIVE PaletteScan(_, _, _)
\* The two loops of generatePalette from pixel i on; st.full is the early
\* return for a color beyond PALETTE_MAX.
PaletteScan(I, st, i) ==
  IF i \notin Pixels \/ st.full THEN st
  ELSE IF i \in I.mask.masked \/ i \in I.visited THEN PaletteScan(I, st, i + 1)
  ELSE IF I.rgba[i] \in DOMAIN st.map THEN PaletteScan(I, st, i + 1)
  ELSE IF Len(st.palette) >= PALETTE_MAX THEN [st EXCEPT !.full = TRUE]
  ELSE PaletteScan(I, [st EXCEPT !.map = (I.rgba[i] :> Len(st.palette)) @@ st.map,
                                 !.palette = Append(st.palette, I.rgba[i])], i + 1)

GeneratePalette(wr, I) ==
  LET st == PaletteScan(I, [map |-> wr.map, palette |-> wr.palette, full |-> FALSE], 0)
  IN [wr EXCEPT !.map = st.map, !.palette = st.palette,
                !.enabled = ~st.full /\ Len(st.palette) > 0]

Alpha(c) == (c \div 16777216) % 256

\* The luminance in units of 1/10000.
Luminance(c) ==
  2126 * (c % 256) + 7152 * ((c \div 256) % 256) + 722 * ((c \div 65536) % 256)

compareColors(a, b) ==
  IF Alpha(a) < Alpha(b) THEN TRUE
  ELSE Luminance(a) < Luminance(b)

\* What std::sort requires of its comparator on the elements it is given.
StrictWeakOn(S) ==
  /\ \A a \in S : ~compareColors(a, a)
  /\ \A a, b \in S : compareColors(a, b) => ~compareColors(b, a)
  /\ \A a, b, c \in S : compareColors(a, b) /\ compareColors(b, c) => compareColors(a, c)
  /\ \A a, b, c \in S :
       (~compareColors(a, b) /\ ~compareColors(b, a) /\ ~compareColors(b, c) /\ ~compareColors(c, b))
         => (~compareColors(a, c) /\ ~compareColors(c, a))

\* The orders std::sort may leave the palette in: a sorted one if the
\* comparator is a strict weak ordering of the elements, any one otherwise.
SortOutcomes(palette) ==
  LET S == {palette[k] : k \in DOMAIN palette}
  IN {p \in [DOMAIN palette -> S] :
        /\ \A c \in S : \E k \in DOMAIN p : p[k] = c
        /\ StrictWeakOn(S) =>
             \A j, k \in DOMAIN p : j < k => ~compareColors(p[k], p[j])}

\* sortPalette once std::sort has left the palette as p: the map is rebuilt.
SortPalette(wr, p) ==
  [wr EXCEPT !.palette = p,
             !.map = [c \in {p[k] : k \in DOMAIN p} |->
                        (CHOOSE k \in DOMAIN p : p[k] = c) - 1]]

\* _map[c]: the index of c, a color not in the map being entered with 0.
MapIndex(map, c) == IF c \in DOMAIN map THEN map[c] ELSE 0

GenerateImage(wr, I) ==
  LET masked_palette == IF I.mask.enabled /\ I.mask.color \in DOMAIN wr.map
                        THEN wr.map[I.mask.color] ELSE 0
      looked == {I.rgba[i] : i \in Pixels \ I.mask.masked}
  IN [wr EXCEPT !.image = [i \in Pixels |->
                             IF i \in I.mask.masked THEN masked_palette % 256
                             ELSE MapIndex(wr.map, I.rgba[i]) % 256],
                !.map = [c \in DOMAIN wr.map \cup looked |-> MapIndex(wr.map, c)],
                !.masked_palette = masked_palette]

PaletteRest == <<params, bits, tried, out, wx, wy, simcalls>>

GeneratePaletteStep ==
  /\ pc = "generatePalette"
  /\ w' = GeneratePalette(w, params)
  /\ pc' = IF w'.enabled THEN "sortPalette" ELSE "paletteDone"
  /\ UNCHANGED PaletteRest

SortPaletteStep ==
  /\ pc = "sortPalette"
  /\ \E p \in SortOutcomes(w.palette) : w' = SortPalette(w, p)
  /\ pc' = "generateImage"
  /\ UNCHANGED PaletteRest

GenerateImageStep ==
  /\ pc = "generateImage"
  /\ w' = GenerateImage(w, params)
  /\ pc' = "paletteDone"
  /\ UNCHANGED PaletteRest

PaletteNext == GeneratePaletteStep \/ SortPaletteStep \/ GenerateImageStep

SpecPalette == PaletteInit /\ [][PaletteNext]_vars

(***************************************************************************)
(* ImageCMWriter: the filter zones of the context-modelling writer.        *)
(* initFromRGBA runs maskFilters and decideFilters; write runs writeChaos. *)
(* A pixel is open when it is neither masked nor LZ-visited.  The          *)
(* predictors, the color transforms, the scorer and the entropy estimator  *)
(* are not part of these sources: the filter decideFilters picks for a     *)
(* zone is any pair (sf, cf) below the two filter counts.                  *)
(* params = [masked, visited, revisitCount], w = [filters, seen_filter],   *)
(* tried = the locals [passes, revisitCount] of decideFilters, out = the   *)
(* symbols written, each with the pixel it was written at (DESYNC).        *)
(***************************************************************************)
CMWidth == 3
CMHeight == 3
FILTER_ZONE_SIZE == 2
MaxCMRevisit == 1
CM_SFCOUNT == 2
CM_CFCOUNT == 1
UNUSED_FILTER == 65535
TODO_FILTER == 0
PassesLogged == 4

CMPixels == {<<x, y>> : x \in 0..(CMWidth - 1), y \in 0..(CMHeight - 1)}

FilterStride == CeilDiv(CMWidth, FILTER_ZONE_SIZE)

FilterRows == CeilDiv(CMHeight, FILTER_ZONE_SIZE)

ZoneOf(x, y) == (x \div FILTER_ZONE_SIZE) + (y \div FILTER_ZONE_SIZE) * FilterStride

getFilter(wr, x, y) == wr.filters[ZoneOf(x, y) + 1]

setFilter(wr, x, y, filter) == [wr EXCEPT !.filters[ZoneOf(x, y) + 1] = filter]

OpenPixel(I, x, y) == <<x, y>> \notin I.masked /\ <<x, y>> \notin I.visited

ZonePixels(z) == {p \in CMPixels : ZoneOf(p[1], p[2]) = z}

ZoneX(z) == (z % FilterStride) * FILTER_ZONE_SIZE

ZoneY(z) == (z \div FilterStride) * FILTER_ZONE_SIZE

InitCM ==
  \E covered \in SUBSET CMPixels, r \in 0..MaxCMRevisit,
     g \in {TODO_FILTER, UNUSED_FILTER} :
    /\ params = [masked |-> {p \in covered : (p[1] + p[2]) % 2 = 0},
                 visited |-> {p \in covered : (p[1] + p[2]) % 2 = 1},
                 revisitCount |-> r]
    /\ w = [filters |-> [z \in 1..(FilterStride * FilterRows) |-> g],
            seen_filter |-> [c \in 1..FilterStride |-> g % 2]]
    /\ pc = "maskFilters"
    /\ tried = [passes |-> 0, revisitCount |-> 0]
    /\ bits = 0 /\ out = <<>> /\ wx = 0 /\ wy = 0 /\ simcalls = 0

RECURSIVE MaskZones(_, _, _)
MaskZones(wr, I, z) ==
  IF z >= FilterStride * FilterRows THEN wr
  ELSE LET on == \A p \in ZonePixels(z) : ~OpenPixel(I, p[1], p[2])
       IN MaskZones(setFilter(wr, ZoneX(z), ZoneY(z),
                              IF on THEN UNUSED_FILTER ELSE TODO_FILTER), I, z + 1)

maskFilters(wr, I) == MaskZones(wr, I, 0)

FilterChoices == {sf * 256 + cf : sf \in 0..(CM_SFCOUNT - 1), cf \in 0..(CM_CFCOUNT - 1)}

(* One pass of the for (;;) loop of decideFilters over the zones z..: the  *)
(* set of the results [wr, revisitCount, returned].                        *)
RECURSIVE SweepZones(_, _, _, _)
SweepZones(wr, revisitCount, passes, z) ==
  IF z >= FilterStride * FilterRows
  THEN {[wr |-> wr, revisitCount |-> revisitCount, returned |-> FALSE]}
  ELSE IF getFilter(wr, ZoneX(z), ZoneY(z)) = UNUSED_FILTER
  THEN SweepZones(wr, revisitCount, passes, z + 1)
  ELSE IF passes > 0 /\ revisitCount - 1 < 0
  THEN {[wr |-> wr, revisitCount |-> revisitCount - 1, returned |-> TRUE]}
  ELSE UNION {SweepZones(setFilter(wr, ZoneX(z), ZoneY(z), f),
                         IF passes > 0 THEN revisitCount - 1 ELSE revisitCount,
                         passes, z + 1) : f \in FilterChoices}

CMRest == <<params, bits, simcalls>>

MaskFiltersStep ==
  /\ pc = "maskFilters"
  /\ w' = maskFilters(w, params)
  /\ tried' = [passes |-> 0, revisitCount |-> params.revisitCount]
  /\ pc' = "decideFilters"
  /\ UNCHANGED <<out, wx, wy>>
  /\ UNCHANGED CMRest

(* passes is only compared with 0 and with 4, so it is kept up to 4.       *)
DecideFiltersSweep ==
  /\ pc = "decideFilters"
  /\ \E o \in SweepZones(w, tried.revisitCount, tried.passes, 0) :
       /\ w' = o.wr
       /\ IF o.returned \/ o.revisitCount <= 0
          THEN /\ pc' = "writeChaos"
               /\ tried' = [tried EXCEPT !.revisitCount = o.revisitCount]
          ELSE /\ pc' = "decideFilters"
               /\ tried' = [passes |-> Min(tried.passes + 1, PassesLogged),
                            revisitCount |-> o.revisitCount]
  /\ UNCHANGED <<out, wx, wy>>
  /\ UNCHANGED CMRest

KeepSeen(wr, y) == wr

ClearSeen(wr, y) ==
  IF y % FILTER_ZONE_SIZE = 0
  THEN [wr EXCEPT !.seen_filter = [c \in 1..FilterStride |-> 0]]
  ELSE wr

(* One pixel of writeChaos; the first pixel of a row clears the seen flags *)
(* when the row starts a zone row.                                         *)
WriteChaosPixel ==
  /\ pc = "writeChaos"
  /\ LET wr == IF wx = 0 THEN ClearSeen(w, wy) ELSE w
         col == (wx \div FILTER_ZONE_SIZE) + 1
         filter == getFilter(wr, wx, wy)
         px == [kind |-> "yuva", x |-> wx, y |-> wy, filter |-> filter]
     IN IF OpenPixel(params, wx, wy)
        THEN IF wr.seen_filter[col] = 0
             THEN /\ w' = [wr EXCEPT !.seen_filter[col] = 1]
                  /\ out' = out \o <<[kind |-> "cf", x |-> wx, y |-> wy, filter |-> filter % 256],
                                     [kind |-> "sf", x |-> wx, y |-> wy, filter |-> filter \div 256],
                                     px>>
             ELSE /\ w' = wr
                  /\ out' = Append(out, px)
        ELSE /\ w' = wr
             /\ out' = out
  /\ IF wx + 1 < CMWidth
     THEN /\ wx' = wx + 1 /\ wy' = wy /\ pc' = pc
     ELSE /\ wx' = 0 /\ wy' = wy + 1
          /\ pc' = IF wy + 1 < CMHeight THEN pc ELSE "chaosWritten"
  /\ UNCHANGED tried
  /\ UNCHANGED CMRest

NextCM == MaskFiltersStep \/ DecideFiltersSweep \/ WriteChaosPixel

SpecCM == InitCM /\ [][NextCM]_vars

SpecCMFair == SpecCM /\ WF_vars(DecideFiltersSweep)

(***************************************************************************)
(* designTiles one tile at a time (specification SpecTiles).  w is the     *)
(* MonoWriter at the call of designTiles and tried holds the locals of the *)
(* function: passes, revisitCount, the estimator ee, the cursor p as an    *)
(* offset from _tiles.get(), and k, the number of tiles the two for loops  *)
(* of the current sweep have stepped over (tx + ty * _tiles_x).  A read    *)
(* through p past the end of the tile map finds whatever lies there and a  *)
(* store through it leaves the tile map as it is.                          *)
(***************************************************************************)
MAX_PASSES == 4
MaxRevisit == 1          \* knobs->mono_revisitCount is 0..MaxRevisit
MaxSweeps == 2           \* the sweeps of the while loop that are followed

\* The MonoWriter as process() hands it to designTiles.
DesignTilesEntry(P, g) ==
  DesignPaletteTiles(DesignFilters(DesignPaletteFilters(MaskTiles(
    InitBits(ProcessBegin(FreshWriter(P, g), P), P.min_bits)))))

\* The residuals of the unmasked elements of tile t under filter slot f.
TileCodes(wr, t, f) ==
  BagOfCells(TileUnmasked(wr, t),
             [i \in TileUnmasked(wr, t) |-> CellResidual(wr.P, wr.filters[f], i)])

TilesInit ==
  \E n \in NumSymsSet, g \in 0..MaxGarbage, r \in 0..MaxRevisit :
    /\ \/ \E kinds \in [0..((WideSizeX - 1) \div 2) -> 0..n], m \in 0..1 :
             params = WideParams(kinds, n, m)
       \/ \E rows \in [0..(SizeY - 1) -> RowPatterns], m \in MaskPatterns, tr \in BOOLEAN :
             params = InputParams(rows, n, m, 1, 1, tr)
    /\ w = DesignTilesEntry(params, g)
    /\ pc = "tiles"
    /\ tried = [passes |-> 0, revisitCount |-> r, ee |-> EEInit, p |-> 0, k |-> 0]
    /\ bits = 0
    /\ out = <<>>
    /\ wx = 0
    /\ wy = 0
    /\ simcalls = 0

\* What the tile at sweep position u reads through the cursor.
TilesView(wr, L) == [u \in Tiles(wr) |-> TileRead(wr, u + L.p - L.k)]

\* The body of the inner for loop for a tile that is neither masked nor
\* sympal, the revisit block done: score every slot, store the best.
TileAssign(wr, L, ee) ==
  IF L.p < wr.tiles_count
  THEN [wr EXCEPT !.tiles[L.p] = BestFilterIndex(TilesView(wr, L), wr, L.k, ee)]
  ELSE wr

\* One iteration of the inner for loop.
TileVisit ==
  /\ pc = "tiles"
  /\ tried.k < w.tiles_count
  /\ tried.p < MaxSweeps * w.tiles_count
  /\ LET old_filter == TileRead(w, tried.p)
         rc == IF tried.passes > 0 THEN tried.revisitCount - 1 ELSE tried.revisitCount
         ee1 == IF tried.passes > 0 /\ w.filter_indices[old_filter] < SFCOUNT
                THEN EESubtract(tried.ee, TileCodes(w, tried.k, old_filter))
                ELSE tried.ee
     IN IF old_filter >= w.normal_filter_count
        THEN /\ tried' = [tried EXCEPT !.p = @ + 1, !.k = @ + 1]
             /\ UNCHANGED <<w, pc>>
        ELSE IF rc < 0
        THEN /\ pc' = "tilesReturned"
             /\ tried' = [tried EXCEPT !.revisitCount = rc]
             /\ UNCHANGED w
        ELSE /\ w' = TileAssign(w, tried, ee1)
             /\ tried' = [tried EXCEPT !.p = @ + 1, !.k = @ + 1,
                                       !.revisitCount = rc, !.ee = ee1]
             /\ UNCHANGED pc
  /\ UNCHANGED <<params, bits, out, wx, wy, simcalls>>

\* The end of the two for loops and the test of the while loop.
TileSweepEnd ==
  /\ pc = "tiles"
  /\ tried.k = w.tiles_count
  /\ tried.p < MaxSweeps * w.tiles_count
  /\ IF tried.passes < MAX_PASSES
     THEN /\ tried' = [tried EXCEPT !.k = 0]
          /\ UNCHANGED pc
     ELSE /\ pc' = "tilesReturned"
          /\ UNCHANGED tried
  /\ UNCHANGED <<params, w, bits, out, wx, wy, simcalls>>

TilesNext == TileVisit \/ TileSweepEnd

SpecTiles == TilesInit /\ [][TilesNext]_vars

(***************************************************************************)
(* The chain of nested MonoWriters (specification SpecRecurse): process()  *)
(* and recurseCompress as they call each other, for every matrix size and  *)
(* every min_bits >= 0.  What the stages in between compute enters only as *)
(* two figures, the row-filter entropy and the simulate() result, and both *)
(* are inputs here.  w is the chain, outermost MonoWriter first; a level   *)
(* is the part of a MonoWriter that process(), recurseCompress and the     *)
(* head of writeTables read and write.                                     *)
(***************************************************************************)
MaxCost == 2
ChainSizeX == 4
ChainSizeY == 2
ChainMinBits == 1

\* process(), lines 977-993, on a new MonoWriter for a matrix of this size.
Level(size_x, size_y, min_bits, max_bits) ==
  [size_x |-> size_x, size_y |-> size_y, bits |-> min_bits,
   tile_bits |-> 0, tiles_x |-> 0, tiles_y |-> 0, tiles_count |-> 0,
   row_filter_entropy |-> 0, recurse_entropy |-> -1, ran |-> FALSE, fe |-> FALSE,
   best_entropy |-> INT_MAX, best_bits |-> max_bits, at |-> "loop"]

ChainInit ==
  \E sx \in 1..ChainSizeX, sy \in 1..ChainSizeY, mn \in 0..ChainMinBits :
    \E mx \in mn..MaxBitsTop :
      /\ params = [size_x |-> sx, size_y |-> sy, min_bits |-> mn, max_bits |-> mx]
      /\ w = <<Level(sx, sy, mn, mx)>>
      /\ pc = "chain"
      /\ bits = 0
      /\ tried = <<>>
      /\ out = <<>>
      /\ wx = 0
      /\ wy = 0
      /\ simcalls = 0

Top == w[Len(w)]
SetTop(lv) == [w EXCEPT ![Len(w)] = lv]
ChainRest == <<params, bits, tried, wx, wy, simcalls>>

\* Lines 998-1025: the head of the loop and the stages up to
\* designRowFilters, whose figure is c.
ChainGeometry ==
  /\ pc = "chain"
  /\ Top.at = "loop"
  /\ Top.bits <= params.max_bits
  /\ \E c \in 0..MaxCost :
       LET ts == 2 ^ Top.bits
           tx == (Top.size_x + ts - 1) \div ts
           ty == (Top.size_y + ts - 1) \div ts
       IN w' = SetTop([Top EXCEPT !.tile_bits = Top.bits,
                                  !.tiles_x = tx, !.tiles_y = ty,
                                  !.tiles_count = tx * ty,
                                  !.row_filter_entropy = c,
                                  !.ran = FALSE,
                                  !.at = "recurse"])
  /\ UNCHANGED <<pc, out>>
  /\ UNCHANGED ChainRest

\* Line 998: the loop condition fails.
ChainLoopEnd ==
  /\ pc = "chain"
  /\ Top.at = "loop"
  /\ Top.bits > params.max_bits
  /\ w' = SetTop([Top EXCEPT !.at = "done"])
  /\ UNCHANGED <<pc, out>>
  /\ UNCHANGED ChainRest

\* Lines 720-721: below the threshold recurseCompress does nothing.
ChainSkip ==
  /\ pc = "chain"
  /\ Top.at = "recurse"
  /\ Top.tiles_count < RECURSE_THRESH_COUNT
  /\ w' = SetTop([Top EXCEPT !.at = "score"])
  /\ UNCHANGED <<pc, out>>
  /\ UNCHANGED ChainRest

\* Lines 725-737: a new MonoWriter on the tile map, and process() on it.
ChainEnter ==
  /\ pc = "chain"
  /\ Top.at = "recurse"
  /\ Top.tiles_count >= RECURSE_THRESH_COUNT
  /\ Len(w) < MaxDepth
  /\ w' = Append(w, Level(Top.tiles_x, Top.tiles_y, params.min_bits, params.max_bits))
  /\ UNCHANGED <<pc, out>>
  /\ UNCHANGED ChainRest

\* Lines 737-747: the nested process() has returned its best_entropy.
ChainReturn ==
  /\ pc = "chain"
  /\ Len(w) >= 2
  /\ Top.at = "done"
  /\ LET parent == w[Len(w) - 1]
     IN w' = [SubSeq(w, 1, Len(w) - 1) EXCEPT ![Len(w) - 1] =
                [parent EXCEPT !.recurse_entropy = Top.best_entropy,
                               !.ran = TRUE,
                               !.fe = RecurseKeeps(Top.best_entropy,
                                                   parent.row_filter_entropy),
                               !.at = "score"]]
  /\ UNCHANGED <<pc, out>>
  /\ UNCHANGED ChainRest

\* Lines 1031-1045: simulate() gave entropy for this tile size.
ChainScore ==
  /\ pc = "chain"
  /\ Top.at = "score"
  /\ \E entropy \in 0..MaxCost :
       IF KeepsSearching(Top, entropy)
       THEN w' = SetTop([RecordBest(Top, entropy, Top.bits)
                           EXCEPT !.bits = Top.bits + 1, !.at = "loop"])
       ELSE w' = SetTop([Top EXCEPT !.at = "done"])
  /\ UNCHANGED <<pc, out>>
  /\ UNCHANGED ChainRest

\* Lines 1068-1071 and 1125-1135 of writeTables on the outermost MonoWriter.
ChainWriteTables ==
  /\ pc = "chain"
  /\ Len(w) = 1
  /\ Top.at = "done"
  /\ out' = (IF TileBitsFieldBC(params) > 0
             THEN <<Field("tile_bits",
                          LowBits(Top.tile_bits - params.min_bits, TileBitsFieldBC(params)),
                          TileBitsFieldBC(params))>>
             ELSE <<>>)
            \o <<Field("recurse", IF Top.fe THEN 1 ELSE 0, 1)>>
  /\ pc' = "chainWritten"
  /\ UNCHANGED w
  /\ UNCHANGED ChainRest

ChainNext ==
  \/ ChainGeometry
  \/ ChainLoopEnd
  \/ ChainSkip
  \/ ChainEnter
  \/ ChainReturn
  \/ ChainScore
  \/ ChainWriteTables

SpecRecurse == ChainInit /\ [][ChainNext]_vars

(***************************************************************************)
(* Properties of the run of one MonoWriter (specification Spec).           *)
(***************************************************************************)
\* The run has written every cell and the owner made no simulate() call.
Finished == pc = "finished" /\ simcalls = 0

\* C1: round trip.  The fields process() and the write pass emit, read back
\* by the reader of section 4.9 with the same Parameters, are consumed
\* exactly and give the source value at every unmasked cell.
RoundTrip ==
  Finished =>
    LET d == Read(params, out)
    IN /\ d.ok
       /\ \A i \in Cells(params) : ~params.mask[i] => d.P.data[i] = params.data[i]

\* C2: bit-length law.  The bits written by writeTables, writeRowHeader and
\* write for the live state are exactly the bits simulate() returned for
\* that state (the last tile size tried).
BitLengthLaw ==
  Finished => EmittedBits(out) = tried[Len(tried)].entropy

\* C3: determinism.  Whatever the unwritten memory holds, the run has the
\* tile map, the row-filter choices and the output of the run on the same
\* Parameters whose unwritten memory holds zeros.
Deterministic ==
  Finished =>
    LET ref == Encode(params, 0)
    IN /\ out = ref.out
       /\ w.tiles = ref.w.tiles
       /\ w.tile_row_filters = ref.w.tile_row_filters

\* C4: filter count bounds.  When designFilters has returned,
\* SF_FIXED <= normal_filter_count, sympal_filter_count <= MAX_PALETTE,
\* normal_filter_count + sympal_filter_count <= MAX_FILTERS and
\* filter_count is their sum.
FilterCountBounds ==
  pc = "designPaletteTiles" =>
    /\ SFFIXED <= w.normal_filter_count
    /\ w.sympal_filter_count >= 0
    /\ w.sympal_filter_count <= MAX_PALETTE
    /\ w.normal_filter_count + w.sympal_filter_count <= MAX_FILTERS
    /\ w.filter_count = w.normal_filter_count + w.sympal_filter_count

\* designFilters has filled the table to MAX_FILTERS with both kinds.
FilterCountBoundsWitness ==
  /\ pc = "designPaletteTiles"
  /\ w.filter_count = MAX_FILTERS
  /\ w.sympal_filter_count > 0

\* C5: residual range.  When computeResiduals has returned, every unmasked
\* cell of a tile with a normal filter holds
\* (M + num_syms - prediction) mod num_syms, a value in [0, num_syms).
ResidualRange ==
  pc = "designRowFilters" =>
    \A i \in Cells(params) :
      (~params.mask[i] /\ GetTile(w, i) < w.normal_filter_count) =>
        /\ w.residuals[i] >= 0
        /\ w.residuals[i] < params.num_syms
        /\ w.residuals[i] =
             (params.data[i] + params.num_syms
              - Predict(w.filters[GetTile(w, i)], params, CellX(params, i), CellY(params, i)))
             % params.num_syms

\* computeResiduals has written a residual whose sum needed the reduction
\* and one that did not.
ResidualRangeWitness ==
  /\ pc = "designRowFilters"
  /\ \E i, j \in Cells(params) :
       /\ ~params.mask[i] /\ GetTile(w, i) < w.normal_filter_count
       /\ ~params.mask[j] /\ GetTile(w, j) < w.normal_filter_count
       /\ params.data[i] >= Predict(w.filters[GetTile(w, i)], params,
                                    CellX(params, i), CellY(params, i))
       /\ params.data[j] < Predict(w.filters[GetTile(w, j)], params,
                                   CellX(params, j), CellY(params, j))

(***************************************************************************)
(* Properties of the chain of nested MonoWriters (SpecRecurse) and of the  *)
(* tile-size search.                                                       *)
(***************************************************************************)
\* C6: recursion decision.  When recurseCompress has run the nested
\* MonoWriter for the live tile size, the recurse bit of the header is 1 if
\* and only if recurse_entropy <= row_filter_entropy, and every level that
\* ran its nested MonoWriter kept it under exactly that condition.
RecursionDecision ==
  /\ \A k \in 1..Len(w) :
       (pc \in {"chain", "chainWritten"} /\ w[k].ran) =>
         (w[k].fe <=> w[k].recurse_entropy <= w[k].row_filter_entropy)
  /\ (pc = "chainWritten" /\ Top.ran) =>
       (out[Len(out)].v = 1 <=> Top.recurse_entropy <= Top.row_filter_entropy)

\* The header is written after a tie: the nested MonoWriter was kept.
RecursionDecisionWitness ==
  /\ pc = "chainWritten"
  /\ Top.ran
  /\ Top.recurse_entropy = Top.row_filter_entropy
  /\ out[Len(out)].k = "recurse"
  /\ out[Len(out)].v = 1

\* C7: best state is live.  When process() has returned, the tile size of
\* the object is best_bits, the cost simulate() gives for the object is the
\* cost process() returned, and the tile-bits field writeTables writes is
\* best_bits - min_bits.
BestIsLive ==
  /\ (pc = "processed" /\ simcalls = 0) =>
       /\ w.tile_bits = w.best_bits
       /\ Simulate(w).bits = w.best_entropy
  /\ (pc = "rowHeader" /\ wy = 0 /\ TileBitsFieldBC(params) > 0) =>
       out[1].v = w.best_bits - params.min_bits

\* C8: early-stop soundness.  When process() has returned, best_bits is a
\* tile size that was tried, at the cost process() returns, and no tile
\* size below best_bits cost fewer bits.
EarlyStopSound ==
  pc = "processed" =>
    /\ \E k \in 1..Len(tried) :
         tried[k].bits = w.best_bits /\ tried[k].entropy = w.best_entropy
    /\ \A j \in 1..Len(tried) :
         tried[j].bits < w.best_bits => tried[j].entropy >= w.best_entropy

\* process() stopped at the first tile size that did not improve, after a
\* tile size that did.
EarlyStopSoundWitness ==
  /\ pc = "processed"
  /\ Len(tried) = 3
  /\ w.best_bits = tried[2].bits
  /\ tried[2].entropy < tried[1].entropy
  /\ tried[3].entropy >= tried[2].entropy

\* C9: simulate() is pure.  A simulate() call of the owner leaves every
\* field of the MonoWriter as it was, the chaos model included.
SimulatePure == [][simcalls' # simcalls => w' = w]_vars

\* C10: recursion terminates.  Every nested MonoWriter works on a matrix
\* with fewer cells than its parent's, so the chain ends at a level whose
\* tile count is below RECURSE_THRESH_COUNT.
RecursionTerminates ==
  pc = "chain" =>
    \A k \in 2..Len(w) :
      w[k].size_x * w[k].size_y < w[k - 1].size_x * w[k - 1].size_y

(***************************************************************************)
(* Properties of the mask and of the tile map (specification Spec).        *)
(***************************************************************************)
\* The Parameters P with the value v at every masked position.
Remasked(P, v) ==
  [P EXCEPT !.data = [i \in DOMAIN P.data |-> IF P.mask[i] THEN v ELSE P.data[i]]]

\* C11: mask non-interference.  The run on a matrix that differs from the
\* given one at masked positions only (same mask, same parameters) has the
\* same tile map, the same residual at every unmasked cell of a tile with a
\* normal filter and the same output.
MaskNonInterference ==
  Finished =>
    \A v \in 0..(params.num_syms - 1) :
      LET ref == Encode(Remasked(params, v), w.g)
      IN /\ w.tiles = ref.w.tiles
         /\ \A i \in Cells(params) :
              (~params.mask[i] /\ GetTile(w, i) < w.normal_filter_count) =>
                w.residuals[i] = ref.w.residuals[i]
         /\ out = ref.out

\* C12: tile-map invariant.  When designTiles has returned, a tile's entry
\* is MASK_TILE if and only if every cell of the tile inside the matrix is
\* masked, and every tile with an unmasked cell has an entry below
\* normal_filter_count + sympal_filter_count.
TileMapInvariant ==
  pc = "computeResiduals" =>
    \A t \in Tiles(w) :
      /\ w.tiles[t] = MASK_TILE <=> TileUnmasked(w, t) = {}
      /\ TileUnmasked(w, t) # {} =>
           w.tiles[t] < w.normal_filter_count + w.sympal_filter_count

\* designTiles has returned on a map with a fully masked tile and a tile
\* that it gave a normal filter.
TileMapInvariantWitness ==
  /\ pc = "computeResiduals"
  /\ \E t, u \in Tiles(w) :
       /\ TileUnmasked(w, t) = {}
       /\ w.tiles[t] = MASK_TILE
       /\ TileUnmasked(w, u) # {}
       /\ w.tiles[u] < w.normal_filter_count

(***************************************************************************)
(* Properties of the write pass (specification Spec).                      *)
(***************************************************************************)
\* The fields a step appends to the output.
Emitted == SubSeq(out', Len(out) + 1, Len(out'))

\* The step is a writeRowHeader(wy) or a write(wx, wy) of the write pass.
IsRowHeaderStep == pc = "rowHeader" /\ pc' = "cell"
IsWriteStep == pc = "cell" /\ simcalls' = simcalls /\ <<wx, wy>>' # <<wx, wy>>

\* The tile of the cell the write pass is at, and whether the cell is the
\* first one of its tile column visited in the tile row.
TileAtCursor == TileOf(w, wx + wy * params.size_x)
FirstVisit == wx % TileSize(w) = 0 /\ wy % TileSize(w) = 0

SympalCountField ==
  (pc = "rowHeader" /\ wy = 0) =>
    \A k \in 1..Len(out) :
      out[k].k = "sympal_count" =>
        /\ w.sympal_filter_count > 0
        /\ out[k].n = 4
        /\ out[k].v \in 0..15
        /\ out[k].v = w.sympal_filter_count - 1

\* The cell the write pass is at, and whether it is masked.
CellAtCursor == wx + wy * params.size_x
MaskedAtCursor == params.mask[CellAtCursor]

\* C15: write(x, y) on a masked cell emits nothing, neither a filter id nor
\* a residual, and moves the chaos model by exactly one zero().
MaskedWriteSilent ==
  [][(IsWriteStep /\ MaskedAtCursor) =>
       /\ Emitted = <<>>
       /\ w'.chaos = ChaosZero(w.chaos)]_vars

\* The chaos bin the sweep of initializeEncoders and of simulate() has for
\* cell i, a cell the sweep codes.
SweepBinAt(wr, i) ==
  LET coded == Sweep(wr, ChaosStart(wr.chaos), 0, <<>>).coded
  IN coded[Cardinality({j \in 0..i : ~CellSkipped(wr, j)})][1]

\* C16: chaos lock-step.  Every write(x, y) moves the chaos model by one
\* cell, as the sweeps of initializeEncoders and simulate() do; and for an
\* unmasked cell of a tile with a normal filter, write emits the residual
\* under the chaos bin the sweeps had for the cell.
ChaosLockStep ==
  [][(IsWriteStep /\ simcalls = 0) =>
       /\ w'.chaos.x = w.chaos.x + 1
       /\ (~MaskedAtCursor /\ w.tiles[TileAtCursor] < w.normal_filter_count) =>
            /\ ChaosGet(w.chaos) = SweepBinAt(w, CellAtCursor)
            /\ \E k \in 1..Len(Emitted) :
                 /\ Emitted[k].k = "residual"
                 /\ Emitted[k].v = w.residuals[CellAtCursor]
                 /\ Emitted[k].n = EncSimulate(w.encoder[SweepBinAt(w, CellAtCursor)],
                                               w.residuals[CellAtCursor])]_vars

\* C17: the filter write() decides by.  In every write(x, y) the filter id
\* that chooses between emitting a residual and chaos.zero() is the
\* tile-map entry of the tile that holds (x, y).
WriteFilterIsTileEntry ==
  [][IsWriteStep => w'.write_filter = w.tiles[TileAtCursor]]_vars

\* The values of the sympal fields of the header, in the order written.
HeaderSympals == SelectSeq(out, LAMBDA f : f.k = "sympal")

\* C18: sympal consistency.  When writeTables has returned, every tile
\* whose entry is normal_filter_count + k (a sympal tile) has one value at
\* all its unmasked cells, and that value is the k-th sympal constant of
\* the header.
SympalConsistency ==
  (pc = "rowHeader" /\ wy = 0) =>
    \A t \in Tiles(w) :
      (w.tiles[t] # MASK_TILE /\ w.tiles[t] >= w.normal_filter_count) =>
        LET k == w.tiles[t] - w.normal_filter_count
        IN /\ k < Len(HeaderSympals)
           /\ \A i \in TileUnmasked(w, t) : params.data[i] = HeaderSympals[k + 1].v


\* C19: designTiles stays inside the tile map: whenever the inner for loop
\* is about to visit a tile, the cursor p is an index of the tile map
\* [0, tiles_count) and fewer than MAX_PASSES sweeps lie behind it.
DesignTilesBounded ==
  pc = "tiles" /\ tried.k < w.tiles_count =>
    /\ tried.p \in Tiles(w)
    /\ tried.p \div w.tiles_count < MAX_PASSES

\* The elements of the tiles the first sweep has assigned a filter so far.
AssignedCells ==
  {i \in Cells(w.P) : /\ ~w.P.mask[i]
                      /\ TileOf(w, i) < tried.k
                      /\ GetTile(w, i) < w.normal_filter_count}

\* C20: estimator accounting in designTiles: during the first sweep the
\* EntropyEstimator histogram is the multiset of the residuals of the tiles
\* assigned so far, each under the filter now assigned to it.
EstimatorAccounting ==
  pc = "tiles" /\ tried.p = tried.k =>
    tried.ee = BagOfCells(AssignedCells,
                 [i \in AssignedCells |-> CellResidual(w.P, w.filters[GetTile(w, i)], i)])


\* The adjusted score of filter slot f for the tile at sweep position k: the
\* entropy estimate of its residuals, less 1 when the residuals are all zero,
\* less 1 for each of the left, up, up-left and up-right tiles whose entry is f.
AdjustedScore(view, wr, k, f, ee) ==
  EEEntropy(ee, TileCodes(wr, k, f))
    - (IF BagToSet(TileCodes(wr, k, f)) \subseteq {0} THEN 1 ELSE 0)
    - Cardinality({d \in {<<-1, 0>>, <<0, -1>>, <<-1, -1>>, <<1, -1>>} :
                     f = NeighborTile(view, wr, k, d[1], d[2])})

\* The tile map entry an iteration of designTiles stores, when it stores one.
IsTileAssign ==
  /\ pc = "tiles" /\ tried.k < w.tiles_count /\ tried.p < w.tiles_count
  /\ w.tiles[tried.p] < w.normal_filter_count
  /\ tried'.k = tried.k + 1

ZeroEntropyScore(view, wr, k, f, ee) ==
  EEEntropy(ee, TileCodes(wr, k, f))
    - (IF EEEntropy(ee, TileCodes(wr, k, f)) = 0 THEN 1 ELSE 0)
    - Cardinality({d \in {<<-1, 0>>, <<0, -1>>, <<-1, -1>>, <<1, -1>>} :
                     f = NeighborTile(view, wr, k, d[1], d[2])})

RowCandidateCodes ==
  pc = "designRowFilters" =>
    \A t \in Tiles(w) :
      w.tiles[t] # MASK_TILE =>
        LET codes == RowCodes([k \in 0..(2 * w.tiles_x - 1) |-> Uninit(w.g, k)],
                              w, 0, t \div w.tiles_x)
            rowPrev == [w EXCEPT !.tile_row_filters[t \div w.tiles_x] = RF_PREV]
        IN /\ codes[(t % w.tiles_x)] = w.tiles[t]
           /\ codes[w.tiles_x + (t % w.tiles_x)]
                = (w.tiles[t] + w.filter_count - RowPrevFilter(w, t)) % w.filter_count
           /\ codes[w.tiles_x + (t % w.tiles_x)] = RowFilterCode(rowPrev, t)


\* The cells whose residual is coded: unmasked cells of normal tiles.
CodedCells(wr) == {i \in Cells(wr.P) : ~CellSkipped(wr, i)}

\* The cells coded under bin b when the chaos model has the given levels.
BinCells(wr, levels, b) ==
  {i \in CodedCells(wr) :
     SweepBinAt([wr EXCEPT !.chaos = ChaosInit(levels, wr.P.size_x)], i) = b}

\* Sum over the bins of entropy_overall, plus levels * 5 * num_syms.
ChaosTotal(wr, levels) ==
  SumBag([b \in 0..(levels - 1) |->
            EEEntropyOverall(BagOfCells(BinCells(wr, levels, b), wr.residuals))],
         0..(levels - 1))
    + levels * 5 * wr.P.num_syms

\* C23: after designChaos the bin count is the chaos_levels in
\* [1, MAX_CHAOS_LEVELS) of the least total (bin entropies plus
\* chaos_levels * 5 * num_syms), the smallest such on ties; every coded cell
\* falls in exactly one bin, and with no coded cell the bin count is 1.
ChaosLevelChoice ==
  pc = "initializeEncoders" =>
    /\ w.chaos.bins \in 1..(MAX_CHAOS_LEVELS - 1)
    /\ \A levels \in 1..(MAX_CHAOS_LEVELS - 1) :
         /\ \/ ChaosTotal(w, w.chaos.bins) < ChaosTotal(w, levels)
            \/ ChaosTotal(w, w.chaos.bins) = ChaosTotal(w, levels) /\ w.chaos.bins <= levels
         /\ \A i \in CodedCells(w) :
              Cardinality({b \in 0..(levels - 1) : i \in BinCells(w, levels, b)}) = 1
    /\ CodedCells(w) = {} => w.chaos.bins = 1

\* designChaos has chosen two bins, both take cells and the total is less
\* than that of one bin.
ChaosLevelChoiceWitness ==
  /\ pc = "initializeEncoders"
  /\ w.chaos.bins = 2
  /\ BinCells(w, 2, 0) # {} /\ BinCells(w, 2, 1) # {}
  /\ ChaosTotal(w, 2) < ChaosTotal(w, 1)


NoEncoderBelowThreshold ==
  pc \in {"chain", "chainWritten"} =>
    /\ \A k \in DOMAIN w :
         w[k].at = "score" /\ w[k].tiles_count < RECURSE_THRESH_COUNT => ~w[k].fe
    /\ pc = "chainWritten" /\ Top.tiles_count < RECURSE_THRESH_COUNT =>
         \A j \in DOMAIN out : out[j].k = "recurse" => out[j].v = 0


\* The tile sizes process() tried are min_bits, min_bits + 1, ... in order.
TriedInOrder ==
  \A k \in 1..Len(tried) : tried[k].bits = params.min_bits + k - 1

\* C26: the tile size search goes up from min_bits and stops exactly at the
\* first tile size that costs strictly more than the one tried before it, or
\* after max_bits; a tile size of the same cost as the one before does not
\* end the search.
TileSizeSearchStopsOnWorse ==
  pc = "processed" =>
    /\ Len(tried) >= 1 /\ TriedInOrder
    /\ \A k \in 2..(Len(tried) - 1) : tried[k].entropy <= tried[k - 1].entropy
    /\ \/ tried[Len(tried)].bits = params.max_bits
       \/ Len(tried) >= 2 /\ tried[Len(tried)].entropy > tried[Len(tried) - 1].entropy

\* C26 (amended): the search goes up from min_bits and stops exactly at the
\* first tile size that does not cost strictly less than the one tried
\* before it, or after max_bits; a tile size of the same cost ends it.
TileSizeSearchStopsOnNoGain ==
  pc = "processed" =>
    /\ Len(tried) >= 1 /\ TriedInOrder
    /\ \A k \in 2..(Len(tried) - 1) : tried[k].entropy < tried[k - 1].entropy
    /\ \/ tried[Len(tried)].bits = params.max_bits
       \/ Len(tried) >= 2 /\ tried[Len(tried)].entropy >= tried[Len(tried) - 1].entropy

\* process() has returned before max_bits, at a tile size of the same cost
\* as the one before it.
TileSizeSearchWitness ==
  /\ pc = "processed"
  /\ Len(tried) >= 2
  /\ tried[Len(tried)].bits < params.max_bits
  /\ tried[Len(tried)].entropy = tried[Len(tried) - 1].entropy


\* C28: after initFromRGBA with the palette enabled every pixel that is not
\* masked has palette[image] equal to its color, every masked pixel holds
\* the mask palette index, and the color map holds the palette colors and
\* no other entry.
PaletteImageFaithful ==
  pc = "paletteDone" /\ w.enabled =>
    /\ \A i \in Pixels \ params.mask.masked :
         /\ w.image[i] + 1 \in DOMAIN w.palette
         /\ w.palette[w.image[i] + 1] = params.rgba[i]
    /\ \A i \in params.mask.masked : w.image[i] = w.masked_palette
    /\ DOMAIN w.map = {w.palette[k] : k \in DOMAIN w.palette}

\* C29: compareColors is a strict ordering of the colors sortPalette hands
\* to std::sort: never compareColors(a, a), never both compareColors(a, b)
\* and compareColors(b, a), and colors of different alpha are ordered by
\* alpha alone.
CompareColorsStrict ==
  pc = "sortPalette" =>
    \A a, b \in {w.palette[k] : k \in DOMAIN w.palette} :
      /\ ~compareColors(a, a)
      /\ ~(compareColors(a, b) /\ compareColors(b, a))
      /\ Alpha(a) # Alpha(b) => (compareColors(a, b) <=> Alpha(a) < Alpha(b))

\* C27: decideFilters terminates: once initFromRGBA has entered it, the call
\* returns and the writer goes on, whatever the mask, the LZ coverage and
\* cm_revisitCount are.
DecideFiltersTerminates == (pc = "decideFilters") ~> (pc = "writeChaos")

Raster(p) == p[2] * CMWidth + p[1]

OpenIn(I, z) == {p \in ZonePixels(z) : OpenPixel(I, p[1], p[2])}

FirstOpen(I, z) == CHOOSE p \in OpenIn(I, z) : \A q \in OpenIn(I, z) : Raster(p) <= Raster(q)

ZoneSymbols(z, kind) ==
  {i \in DOMAIN out : out[i].kind = kind /\ ZoneOf(out[i].x, out[i].y) = z}

\* C30: while writeChaos runs and when it has finished, every residual was
\* written under a filter other than UNUSED_FILTER; a zone without an open
\* pixel has no symbol in the output; a zone whose first open pixel (in
\* raster order) is still ahead has no filter symbol yet; a zone whose first
\* open pixel has been written has exactly one color-filter symbol and one
\* spatial-filter symbol, the two are the zone's filter, and they stand
\* directly before the residuals of that first pixel.
ChaosFilterSymbols ==
  pc \in {"writeChaos", "chaosWritten"} =>
    /\ \A i \in DOMAIN out : out[i].kind = "yuva" => out[i].filter # UNUSED_FILTER
    /\ \A z \in 0..(FilterStride * FilterRows - 1) :
         IF OpenIn(params, z) = {}
         THEN \A i \in DOMAIN out : ZoneOf(out[i].x, out[i].y) # z
         ELSE IF Raster(FirstOpen(params, z)) >= wy * CMWidth + wx
         THEN ZoneSymbols(z, "cf") = {} /\ ZoneSymbols(z, "sf") = {}
         ELSE /\ Cardinality(ZoneSymbols(z, "cf")) = 1
              /\ Cardinality(ZoneSymbols(z, "sf")) = 1
              /\ \E i \in ZoneSymbols(z, "cf") :
                   /\ i + 2 <= Len(out)
                   /\ out[i + 1].kind = "sf"
                   /\ out[i + 2].kind = "yuva"
                   /\ \A j \in i..(i + 2) :
                        <<out[j].x, out[j].y>> = FirstOpen(params, z)
                   /\ out[i].filter = w.filters[z + 1] % 256
                   /\ out[i + 1].filter = w.filters[z + 1] \div 256

\* C30 witness: writeChaos has finished an image in which every zone has an
\* open pixel, some pixel is masked, some is LZ-visited, one zone's first
\* open pixel is not the zone's corner, and two zones carry different filters.
ChaosFilterSymbolsWitness ==
  /\ pc = "chaosWritten"
  /\ \A z \in 0..(FilterStride * FilterRows - 1) : OpenIn(params, z) # {}
  /\ params.masked # {} /\ params.visited # {}
  /\ \E z \in 0..(FilterStride * FilterRows - 1) :
       FirstOpen(params, z) # <<ZoneX(z), ZoneY(z)>>
  /\ \E y, z \in 1..(FilterStride * FilterRows) : w.filters[y] # w.filters[z]

====
